---- MODULE Spec2Model ----
(***************************************************************************)
(* Outbound queue manager of the mail server                               *)
(* (crates/smtp/src/queue/manager.rs): the control loop Queue::start, its  *)
(* on-hold registry, the concurrency limiters it admits against and the    *)
(* delivery attempts it dispatches.                                        *)
(*                                                                         *)
(* One step of LoopIteration is one pass through the body of the `loop`    *)
(* of Queue::start: the wait (timeout or event), the event handler, and    *)
(* the rescan or the paused branch that follows it.  Time is in seconds;   *)
(* Instant and epoch readings share the clock `now`.                       *)
(***************************************************************************)
EXTENDS Integers, Sequences, FiniteSets, TLC

(* ------------------------------ bounds -------------------------------- *)
\* number of moves of the environment (control events sent, store changes,
\* clock advances) in one behaviour
MaxSteps == 3
\* longest time the store enumeration (an await) may take, in seconds
MaxScanDelay == 1
\* max_concurrent of every limiter (a configuration value)
MaxConcurrent == 1

(* ------------------------- program constants -------------------------- *)
CLEANUP_INTERVAL == 600
PAUSE_IDLE == 86400
QUEUE_REFRESH == 300

(* ------------------------------ domains ------------------------------- *)
\* the queued messages
QueueIds == {1, 2}
\* limiters consulted, in this order, by the global admission check
GlobalLimiters == <<1, 2>>
Limiters == {GlobalLimiters[i] : i \in 1..Len(GlobalLimiters)}
\* limiters that other concurrent tasks also admit against
SharedLimiters == {2}
None == -1
NoEvent == -1

Min(a, b) == IF a < b THEN a ELSE b

(* OnHold: the registry's values; absence of an entry is NoHold *)
NoHold == [kind |-> "None", until |-> 0, limiters |-> {}, next_due |-> None]
InFlight == [kind |-> "InFlight", until |-> 0, limiters |-> {}, next_due |-> None]
Locked(u) == [kind |-> "Locked", until |-> u, limiters |-> {}, next_due |-> None]
ConcurrencyLimited(ls, nd) ==
    [kind |-> "ConcurrencyLimited", until |-> 0, limiters |-> ls, next_due |-> nd]

(* QueueEvent: the control events, and the two other outcomes of the wait *)
Ev(t, id, st, p) == [type |-> t, queue_id |-> id, status |-> st, paused |-> p]
Timeout == Ev("Timeout", None, NoHold, FALSE)
Closed == Ev("Closed", None, NoHold, FALSE)
Stop == Ev("Stop", None, NoHold, FALSE)
Refresh(id) == Ev("Refresh", id, NoHold, FALSE)
WorkerDone(id) == Ev("WorkerDone", id, NoHold, FALSE)
OnHoldEv(id, st) == Ev("OnHold", id, st, FALSE)
Paused(p) == Ev("Paused", None, NoHold, p)

VARIABLES
    on_hold,        \* Queue.on_hold: QueueId -> OnHold (NoHold = no entry)
    next_wake_up,   \* Queue.next_wake_up
    is_paused,      \* local of Queue::start
    queue_status,   \* core.data.queue_status
    next_cleanup,   \* local of Queue::start
    pc,             \* "running", "stopped" (break) or "panicked"
    concurrent,     \* limiter -> in-flight counter
    attempts,       \* QueueId -> the in_flight vectors of its running attempts
    ext,            \* limiter -> handles held by other concurrent tasks
    store,          \* QueueId -> due of its queue event, or NoEvent
    now,            \* the clock
    steps,          \* number of moves of the environment so far
    track,          \* QueueId -> what happened since its last dispatch
    last,           \* what the latest loop iteration did
    rx,             \* Queue.rx: the control events waiting in the channel
    sent,           \* the control events the channel has accepted, in order
    handled,        \* the control events the loop has taken, in order
    message,        \* Message.domains of the message under evaluation
    result,         \* the latest call of a deadline function and its value
    index_busy,     \* local of spawn_housekeeper
    index_pending,  \* local of spawn_housekeeper
    heap,           \* local of spawn_housekeeper: the scheduled Actions
    hk_rx,          \* the housekeeper's channel: the Events waiting
    hk_pc,          \* the housekeeper task: "running" or "stopped" (return)
    hk_deadline,    \* the instant the housekeeper's timed receive ends at
    runs,           \* number of fts_index_queued tasks that have not ended
    renewing,       \* providers whose renewal task has not reported yet
    purge_schedules,\* core.storage.purge_schedules of the configuration in force
    concurrency_limiter, \* Inner.concurrency_limiter: key -> in-flight counter
    purges,         \* the keys the retain of Inner::purge has still to visit
    hk_last         \* what the latest iteration of the housekeeper did

\* the state of the control channel and of the deadline functions
chan_vars == <<rx, sent, handled>>
msg_vars == <<message, result>>
\* the state of the housekeeper
hk_vars == <<index_busy, index_pending, heap, hk_rx, hk_pc, hk_deadline, runs,
             renewing, purge_schedules, concurrency_limiter, purges, hk_last>>

vars == <<on_hold, next_wake_up, is_paused, queue_status, next_cleanup, pc,
          concurrent, attempts, ext, store, now, steps, track, last,
          rx, sent, handled, message, result,
          index_busy, index_pending, heap, hk_rx, hk_pc, hk_deadline, runs,
          renewing, purge_schedules, concurrency_limiter, purges, hk_last>>

(* --------------------------- the limiters ----------------------------- *)
max_concurrent(l) == MaxConcurrent

\* ConcurrencyLimiter admission: check and increment the counter
try_admit(c, l) ==
    IF c[l] < max_concurrent(l)
    THEN [ok |-> TRUE, c |-> [c EXCEPT ![l] = @ + 1]]
    ELSE [ok |-> FALSE, c |-> c]

\* dropping one InFlight handle: decrement the counter
release(c, l) == [c EXCEPT ![l] = @ - 1]

RECURSIVE release_all(_, _)
release_all(c, in_flight) ==
    IF in_flight = <<>> THEN c
    ELSE release_all(release(c, Head(in_flight)), Tail(in_flight))

\* is_outbound_allowed(&mut in_flight): admit against every global limiter in
\* turn, pushing each handle on in_flight; the first refusal is the Err.
RECURSIVE admit_from(_, _, _)
admit_from(i, c, in_flight) ==
    IF i > Len(GlobalLimiters)
    THEN [ok |-> TRUE, c |-> c, in_flight |-> in_flight, limiter |-> None]
    ELSE LET r == try_admit(c, GlobalLimiters[i]) IN
         IF r.ok
         THEN admit_from(i + 1, r.c, Append(in_flight, GlobalLimiters[i]))
         ELSE [ok |-> FALSE, c |-> c, in_flight |-> in_flight,
               limiter |-> GlobalLimiters[i]]

is_outbound_allowed(c) == admit_from(1, c, <<>>)

(* ------------------------- the event handlers ------------------------- *)
\* mutant: the distance between the two instants, whichever is later
duration_since_Distance(later, earlier) ==
    IF later > earlier THEN later - earlier ELSE earlier - later

\* Instant::duration_since: the time elapsed from earlier to later, zero when
\* earlier is the later of the two (the subtraction saturates)
duration_since(later, earlier) == IF later > earlier THEN later - earlier ELSE 0

\* the wait handed to tokio::time::timeout by an iteration that starts at t
WaitDuration(t) == duration_since(next_wake_up, t)

\* the registry after on_hold.remove(id)
Remove(oh, id) == [oh EXCEPT ![id] = NoHold]
\* on_hold.is_empty(), on_hold.len()
IsEmpty(oh) == \A id \in QueueIds : oh[id] = NoHold
HoldLen(oh) == Cardinality({id \in QueueIds : oh[id] # NoHold})

Handled(out, oh, nwu, p, qs, rq) ==
    [outcome |-> out, on_hold |-> oh, next_wake_up |-> nwu, is_paused |-> p,
     queue_status |-> qs, refresh_queue |-> rq]

\* mutant: Refresh(None) drops every entry
OnRefresh_NoneClearsAll(ev) ==
    Handled("continue",
            IF ev.queue_id # None THEN Remove(on_hold, ev.queue_id)
            ELSE [id \in QueueIds |-> NoHold],
            next_wake_up, is_paused, queue_status, TRUE)

\* mutant: a Refresh drops the entry but does not ask for a rescan
OnRefresh_NoRescan(ev) ==
    Handled("continue",
            IF ev.queue_id # None THEN Remove(on_hold, ev.queue_id) ELSE on_hold,
            next_wake_up, is_paused, queue_status, FALSE)

\* mutant: a Refresh(Some(id)) leaves an InFlight entry where it is
OnRefresh_KeepsInFlight(ev) ==
    Handled("continue",
            IF ev.queue_id # None /\ on_hold[ev.queue_id] # InFlight
            THEN Remove(on_hold, ev.queue_id) ELSE on_hold,
            next_wake_up, is_paused, queue_status, TRUE)

\* Refresh(queue_id)
OnRefresh(ev) ==
    Handled("continue",
            IF ev.queue_id # None THEN Remove(on_hold, ev.queue_id) ELSE on_hold,
            next_wake_up, is_paused, queue_status, TRUE)

\* mutant: WorkerDone never asks for a rescan
OnWorkerDone_NoRescan(ev) ==
    LET oh == Remove(on_hold, ev.queue_id) IN
    Handled("continue", oh, next_wake_up, is_paused, queue_status, FALSE)

\* mutant: WorkerDone always asks for a rescan
OnWorkerDone_AlwaysRescan(ev) ==
    LET oh == Remove(on_hold, ev.queue_id) IN
    Handled("continue", oh, next_wake_up, is_paused, queue_status, TRUE)

\* WorkerDone(queue_id)
OnWorkerDone(ev) ==
    LET oh == Remove(on_hold, ev.queue_id) IN
    Handled("continue", oh, next_wake_up, is_paused, queue_status, ~IsEmpty(oh))

\* mutant: while the queue is paused an OnHold event is dropped
OnOnHold_IgnoredWhilePaused(ev) ==
    IF ev.status.kind = "Locked" /\ ev.status.until < now
    THEN Handled("panic", on_hold, next_wake_up, is_paused, queue_status, FALSE)
    ELSE LET due_in == now + (ev.status.until - now)
             nwu == IF ev.status.kind = "Locked" /\ due_in < next_wake_up
                    THEN due_in ELSE next_wake_up
             oh == IF is_paused THEN on_hold
                   ELSE [on_hold EXCEPT ![ev.queue_id] = ev.status]
         IN Handled("continue", oh, nwu, is_paused, queue_status, HoldLen(oh) > 1)

\* OnHold { queue_id, status }: `*until - now()` is a u64 subtraction; with
\* until < now() it overflows (a panic in a checked build, and in an unchecked
\* one the wrapped Duration overflows the Instant addition, a panic too).
OnOnHold(ev) ==
    IF ev.status.kind = "Locked" /\ ev.status.until < now
    THEN Handled("panic", on_hold, next_wake_up, is_paused, queue_status, FALSE)
    ELSE LET due_in == now + (ev.status.until - now)
             nwu == IF ev.status.kind = "Locked" /\ due_in < next_wake_up
                    THEN due_in ELSE next_wake_up
             oh == [on_hold EXCEPT ![ev.queue_id] = ev.status]
         IN Handled("continue", oh, nwu, is_paused, queue_status, HoldLen(oh) > 1)

\* mutant: the flag is stored but the local is_paused is not updated
OnPaused_FlagOnly(ev) ==
    Handled("continue", on_hold, next_wake_up, is_paused, ~ev.paused, FALSE)

\* mutant: the flag stored is paused, not its negation
OnPaused_FlagAsGiven(ev) ==
    Handled("continue", on_hold, next_wake_up, ev.paused, ev.paused, FALSE)

\* Paused(paused)
OnPaused(ev) ==
    Handled("continue", on_hold, next_wake_up, ev.paused, ~ev.paused, FALSE)

\* mutant: a closed channel is taken for an elapsed timeout
HandleEvent_ClosedRescans(ev) ==
    CASE ev.type = "Refresh" -> OnRefresh(ev)
      [] ev.type = "WorkerDone" -> OnWorkerDone(ev)
      [] ev.type = "OnHold" -> OnOnHold(ev)
      [] ev.type = "Paused" -> OnPaused(ev)
      [] ev.type \in {"Timeout", "Closed"} ->
            Handled("continue", on_hold, next_wake_up, is_paused, queue_status, TRUE)
      [] OTHER ->
            Handled("break", on_hold, next_wake_up, is_paused, queue_status, FALSE)

\* the match on the outcome of timeout(next_wake_up - now, rx.recv())
HandleEvent(ev) ==
    CASE ev.type = "Refresh" -> OnRefresh(ev)
      [] ev.type = "WorkerDone" -> OnWorkerDone(ev)
      [] ev.type = "OnHold" -> OnOnHold(ev)
      [] ev.type = "Paused" -> OnPaused(ev)
      [] ev.type = "Timeout" ->
            Handled("continue", on_hold, next_wake_up, is_paused, queue_status, TRUE)
      [] OTHER ->
            Handled("break", on_hold, next_wake_up, is_paused, queue_status, FALSE)

(* ----------------------------- the rescan ----------------------------- *)
\* mutant: an InFlight entry does not hold the item back
StillOnHold_InFlightPasses(h, c, t) ==
    CASE h.kind = "Locked" -> h.until > t
      [] h.kind = "ConcurrencyLimited" ->
            ~((\E l \in h.limiters : c[l] < max_concurrent(l))
              \/ (h.next_due # None /\ h.next_due <= t))
      [] OTHER -> FALSE

\* mutant: a lock still holds at the second it runs out
StillOnHold_LockInclusive(h, c, t) ==
    CASE h.kind = "Locked" -> h.until >= t
      [] h.kind = "ConcurrencyLimited" ->
            ~((\E l \in h.limiters : c[l] < max_concurrent(l))
              \/ (h.next_due # None /\ h.next_due <= t))
      [] h.kind = "InFlight" -> TRUE
      [] OTHER -> FALSE

\* mutant: every limiter, not any limiter, must have spare capacity
StillOnHold_AllLimiters(h, c, t) ==
    CASE h.kind = "Locked" -> h.until > t
      [] h.kind = "ConcurrencyLimited" ->
            ~((\A l \in h.limiters : c[l] < max_concurrent(l))
              \/ (h.next_due # None /\ h.next_due <= t))
      [] h.kind = "InFlight" -> TRUE
      [] OTHER -> FALSE

\* mutant: a next_due lets the item through even before it has come
StillOnHold_AnyNextDue(h, c, t) ==
    CASE h.kind = "Locked" -> h.until > t
      [] h.kind = "ConcurrencyLimited" ->
            ~((\E l \in h.limiters : c[l] < max_concurrent(l))
              \/ h.next_due # None)
      [] h.kind = "InFlight" -> TRUE
      [] OTHER -> FALSE

\* the `continue` cases of the match on the item's registry entry
StillOnHold(h, c, t) ==
    CASE h.kind = "Locked" -> h.until > t
      [] h.kind = "ConcurrencyLimited" ->
            ~((\E l \in h.limiters : c[l] < max_concurrent(l))
              \/ (h.next_due # None /\ h.next_due <= t))
      [] h.kind = "InFlight" -> TRUE
      [] OTHER -> FALSE

\* mutant: the attempt is spawned whatever the admission check returned
Admit_IgnoresRefusal(st, qe) ==
    LET r == is_outbound_allowed(st.concurrent)
        id == qe.queue_id
    IN [st EXCEPT !.on_hold[id] = InFlight,
                  !.concurrent = r.c,
                  !.attempts[id] = Append(@, r.in_flight)]

\* mutant: the handles taken before a refusal are never dropped
Admit_KeepsRefusedHandles(st, qe) ==
    LET r == is_outbound_allowed(st.concurrent)
        id == qe.queue_id
    IN IF r.ok
       THEN [st EXCEPT !.on_hold[id] = InFlight,
                       !.concurrent = r.c,
                       !.attempts[id] = Append(@, r.in_flight)]
       ELSE [st EXCEPT !.on_hold[id] = ConcurrencyLimited({r.limiter}, None),
                       !.concurrent = r.c]

\* mutant: a refused item is held on every global limiter, with a retry time
Admit_NamesEveryLimiter(st, qe) ==
    LET r == is_outbound_allowed(st.concurrent)
        id == qe.queue_id
    IN IF r.ok
       THEN [st EXCEPT !.on_hold[id] = InFlight,
                       !.concurrent = r.c,
                       !.attempts[id] = Append(@, r.in_flight)]
       ELSE [st EXCEPT !.on_hold[id] = ConcurrencyLimited(Limiters, qe.due),
                       !.concurrent = release_all(r.c, r.in_flight)]

\* "Enforce global concurrency limits": Ok => InFlight entry and a spawned
\* DeliveryAttempt owning in_flight; Err => ConcurrencyLimited entry, and the
\* local in_flight vector is dropped at the end of the block.
Admit(st, qe) ==
    LET r == is_outbound_allowed(st.concurrent)
        id == qe.queue_id
    IN IF r.ok
       THEN [st EXCEPT !.on_hold[id] = InFlight,
                       !.concurrent = r.c,
                       !.attempts[id] = Append(@, r.in_flight)]
       ELSE [st EXCEPT !.on_hold[id] = ConcurrencyLimited({r.limiter}, None),
                       !.concurrent = release_all(r.c, r.in_flight)]

\* mutant: an item due later is skipped without a trace in the running minimum
ProcessItem_NoFold(st, qe, t) ==
    IF qe.due <= t
    THEN LET h == st.on_hold[qe.queue_id] IN
         IF h # NoHold /\ StillOnHold(h, st.concurrent, t)
         THEN IF h.kind = "Locked"
              THEN [st EXCEPT !.next_wake_up = Min(@, h.until - t)]
              ELSE st
         ELSE Admit([st EXCEPT !.on_hold = Remove(@, qe.queue_id)], qe)
    ELSE st

\* the body of `for queue_event in &queue_events`, at rescan time t
ProcessItem(st, qe, t) ==
    IF qe.due <= t
    THEN LET h == st.on_hold[qe.queue_id] IN
         IF h # NoHold /\ StillOnHold(h, st.concurrent, t)
         THEN IF h.kind = "Locked"
              THEN [st EXCEPT !.next_wake_up = Min(@, h.until - t)]
              ELSE st
         ELSE Admit([st EXCEPT !.on_hold = Remove(@, qe.queue_id)], qe)
    ELSE [st EXCEPT !.next_wake_up = Min(@, qe.due - t)]

RECURSIVE ProcessItems(_, _, _)
ProcessItems(st, queue_events, t) ==
    IF queue_events = <<>> THEN st
    ELSE ProcessItems(ProcessItem(st, Head(queue_events), t), Tail(queue_events), t)

\* mutant: an InFlight entry is kept only while the store enumerates its id
Retain_InFlightIfActive(h, id, active_queue_ids, t) ==
    CASE h.kind = "InFlight" -> id \in active_queue_ids
      [] h.kind = "Locked" -> h.until > t
      [] h.kind = "ConcurrencyLimited" -> id \in active_queue_ids
      [] OTHER -> FALSE

\* mutant: a ConcurrencyLimited entry is kept whatever the store enumerates
Retain_LimitedAlways(h, id, active_queue_ids, t) ==
    CASE h.kind = "InFlight" -> TRUE
      [] h.kind = "Locked" -> h.until > t
      [] h.kind = "ConcurrencyLimited" -> TRUE
      [] OTHER -> FALSE

\* the predicate of on_hold.retain in the cleanup pass
Retain(h, id, active_queue_ids, t) ==
    CASE h.kind = "InFlight" -> TRUE
      [] h.kind = "Locked" -> h.until > t
      [] h.kind = "ConcurrencyLimited" -> id \in active_queue_ids
      [] OTHER -> FALSE

\* "Remove expired locks", at time t with the batch queue_events
Cleanup(oh, queue_events, t) ==
    LET active_queue_ids == {queue_events[i].queue_id : i \in 1..Len(queue_events)} IN
    [id \in QueueIds |->
        IF oh[id] # NoHold /\ Retain(oh[id], id, active_queue_ids, t)
        THEN oh[id] ELSE NoHold]

\* mutant: every rescan finds the cleanup deadline elapsed
CleanupDue_Always(nc, t) == TRUE

\* if next_cleanup <= now
CleanupDue(nc, t) == nc <= t

\* mutant: only a request for a refresh starts a rescan, and a timeout is none
RescanDue_Never(refresh_queue, nwu, t) == FALSE

\* the condition guarding "Deliver scheduled messages"
RescanDue(refresh_queue, nwu, t) == refresh_queue \/ nwu <= t

\* the store's enumeration: every queue event, in some order
RECURSIVE Orders(_)
Orders(S) ==
    IF S = {} THEN {<<>>}
    ELSE UNION {{<<x>> \o o : o \in Orders(S \ {x})} : x \in S}

QueueEvents ==
    Orders({[queue_id |-> id, due |-> store[id]] :
                id \in {i \in QueueIds : store[i] # NoEvent}})

\* mutant: the delay is stored as if it were the instant
WakeAt_Relative(t, due_in) == due_in

\* mutant: the loop always sleeps for the whole refresh ceiling
WakeAt_Ceiling(t, due_in) == t + QUEUE_REFRESH

\* self.next_wake_up = now + Duration::from_secs(next_wake_up)
WakeAt(t, due_in) == t + due_in

\* one rescan: enumeration queue_events read at t0, the item pass, the
\* cleanup pass and the new next_wake_up at t1 >= t0
Rescan(oh, queue_events, t0, t1) ==
    LET st == ProcessItems([on_hold |-> oh, concurrent |-> concurrent,
                            attempts |-> attempts, next_wake_up |-> QUEUE_REFRESH],
                           queue_events, t0)
        clean == CleanupDue(next_cleanup, t1)
    IN [on_hold |-> IF clean /\ ~IsEmpty(st.on_hold)
                    THEN Cleanup(st.on_hold, queue_events, t1) ELSE st.on_hold,
        mid |-> st.on_hold,
        cleanup |-> clean,
        concurrent |-> st.concurrent,
        attempts |-> st.attempts,
        next_cleanup |-> IF clean THEN t1 + CLEANUP_INTERVAL ELSE next_cleanup,
        next_wake_up |-> WakeAt(t1, st.next_wake_up)]

(* ------------------------ the loop of Queue::start -------------------- *)
\* what the control events handled since the last dispatch of id amount to:
\* "free" (none dispatched, or a WorkerDone handled since), "flying" (nothing
\* since) or "cleared" (a Refresh(Some(id)) or OnHold for id since)
TrackEvent(tr, ev, id) ==
    IF ev.queue_id # id THEN tr
    ELSE CASE ev.type = "WorkerDone" -> "free"
           [] ev.type \in {"Refresh", "OnHold"} /\ tr = "flying" -> "cleared"
           [] OTHER -> tr

Dispatched(id) == Len(attempts'[id]) > Len(attempts[id])

TrackStep(ev) ==
    track' = [id \in QueueIds |->
                 IF Dispatched(id) THEN "flying" ELSE TrackEvent(track[id], ev, id)]

\* the record of one iteration: the event taken, whether a rescan and a cleanup
\* pass ran, the rescan time, the batch, the registry before the item pass
\* (pre) and after it (mid), the counters before it (conc), the ids
\* dispatched, the instant read after the item pass (end)
Did(ev, rescan, cleanup, t, batch, pre, mid) ==
    [type |-> ev.type, queue_id |-> ev.queue_id, rescan |-> rescan,
     cleanup |-> cleanup, t |-> t, batch |-> batch, pre |-> pre, mid |-> mid,
     conc |-> IF rescan THEN concurrent ELSE [l \in Limiters |-> 0],
     launched |-> {id \in QueueIds : Dispatched(id)},
     end |-> IF rescan THEN now' ELSE 0]

\* a control event is a move of the environment, a timeout is not
Sent(ev) == IF ev.type = "Timeout" THEN 0 ELSE 1

\* one iteration of the loop on the outcome ev of the wait; cost is what the
\* iteration takes of the environment's budget for the event it handles
Iteration(ev, cost) ==
    /\ pc = "running"
    /\ ev.type = "Timeout" => WaitDuration(now) = 0
    /\ steps + cost <= MaxSteps
    /\ LET h == HandleEvent(ev) IN
       IF h.outcome # "continue"
       THEN /\ pc' = IF h.outcome = "break" THEN "stopped" ELSE "panicked"
            /\ UNCHANGED <<on_hold, next_wake_up, is_paused, queue_status,
                           next_cleanup, concurrent, attempts, now, track>>
            /\ steps' = steps + cost
            /\ last' = Did(ev, FALSE, FALSE, 0, <<>>, on_hold, on_hold)
       ELSE /\ pc' = pc
            /\ is_paused' = h.is_paused
            /\ queue_status' = h.queue_status
            /\ IF ~h.is_paused
               THEN IF RescanDue(h.refresh_queue, h.next_wake_up, now)
                    THEN \E queue_events \in QueueEvents, d \in 0..MaxScanDelay :
                            /\ steps + cost + d <= MaxSteps
                            /\ now' = now + d
                            /\ LET r == Rescan(h.on_hold, queue_events, now, now + d) IN
                               /\ on_hold' = r.on_hold
                               /\ concurrent' = r.concurrent
                               /\ attempts' = r.attempts
                               /\ next_cleanup' = r.next_cleanup
                               /\ next_wake_up' = r.next_wake_up
                               /\ last' = Did(ev, TRUE, r.cleanup, now, queue_events,
                                              h.on_hold, r.mid)
                            /\ steps' = steps + cost + d
                    ELSE /\ on_hold' = h.on_hold
                         /\ next_wake_up' = h.next_wake_up
                         /\ steps' = steps + cost
                         /\ UNCHANGED <<next_cleanup, concurrent, attempts, now>>
                         /\ last' = Did(ev, FALSE, FALSE, 0, <<>>, h.on_hold, h.on_hold)
               ELSE /\ on_hold' = h.on_hold
                    /\ next_wake_up' = now + PAUSE_IDLE
                    /\ steps' = steps + cost
                    /\ UNCHANGED <<next_cleanup, concurrent, attempts, now>>
                    /\ last' = Did(ev, FALSE, FALSE, 0, <<>>, h.on_hold, h.on_hold)
            /\ TrackStep(ev)
    /\ UNCHANGED <<ext, store>>

\* the wait returns ev as the control event is sent (or as the timeout fires)
LoopIteration(ev) == Iteration(ev, Sent(ev))

(* --------------------------- the environment -------------------------- *)
LockOffsets == {-1, 2}
DueOffsets == {0, 2, QUEUE_REFRESH, QUEUE_REFRESH + 1}

\* the statuses an OnHold event may carry
HoldInputs ==
    {Locked(now + o) : o \in {x \in LockOffsets : now + x >= 0}}
    \cup {ConcurrencyLimited(Limiters, None), ConcurrencyLimited(SharedLimiters, now + 2)}

\* what the wait of one iteration may return
Inputs ==
    {Timeout, Closed, Stop, Refresh(None), Paused(TRUE), Paused(FALSE)}
    \cup {Refresh(id) : id \in QueueIds}
    \cup {WorkerDone(id) : id \in QueueIds}
    \cup {OnHoldEv(id, st) : id \in QueueIds, st \in HoldInputs}

Loop == \E ev \in Inputs : LoopIteration(ev) /\ UNCHANGED <<chan_vars, msg_vars, hk_vars>>

\* a delivery task ends (success, failure or abort): its DeliveryAttempt, and
\* with it every InFlight handle of in_flight, is dropped
WorkerFinish ==
    \E id \in QueueIds :
        /\ attempts[id] # <<>>
        /\ concurrent' = release_all(concurrent, Head(attempts[id]))
        /\ attempts' = [attempts EXCEPT ![id] = Tail(@)]
        /\ UNCHANGED <<on_hold, next_wake_up, is_paused, queue_status, next_cleanup,
                       pc, ext, store, now, steps, track, last,
                       chan_vars, msg_vars, hk_vars>>

\* another task admits against, or releases, a limiter it shares; taking a
\* slot is a move of the environment, giving it back follows from it
ExtAdmit ==
    \E l \in SharedLimiters :
        LET r == try_admit(concurrent, l) IN
        /\ r.ok
        /\ steps < MaxSteps
        /\ steps' = steps + 1
        /\ concurrent' = r.c
        /\ ext' = [ext EXCEPT ![l] = @ + 1]
        /\ UNCHANGED <<on_hold, next_wake_up, is_paused, queue_status, next_cleanup,
                       pc, attempts, store, now, track, last,
                       chan_vars, msg_vars, hk_vars>>

ExtRelease ==
    \E l \in SharedLimiters :
        /\ ext[l] > 0
        /\ concurrent' = release(concurrent, l)
        /\ ext' = [ext EXCEPT ![l] = @ - 1]
        /\ UNCHANGED <<on_hold, next_wake_up, is_paused, queue_status, next_cleanup,
                       pc, attempts, store, now, steps, track, last,
                       chan_vars, msg_vars, hk_vars>>

\* the store changes: a message is queued, rescheduled or removed
StoreUpdate ==
    \E id \in QueueIds, v \in {NoEvent} \cup {now + o : o \in DueOffsets} :
        /\ store[id] # v
        /\ steps < MaxSteps
        /\ store' = [store EXCEPT ![id] = v]
        /\ steps' = steps + 1
        /\ UNCHANGED <<on_hold, next_wake_up, is_paused, queue_status, next_cleanup,
                       pc, concurrent, attempts, ext, now, track, last,
                       chan_vars, msg_vars, hk_vars>>

\* time passes, to the next second or to the next deadline
Deadlines ==
    {next_wake_up, next_cleanup}
    \cup {store[id] : id \in QueueIds}
    \cup {on_hold[id].until : id \in QueueIds}
    \cup {on_hold[id].next_due : id \in QueueIds}

Tick ==
    /\ steps < MaxSteps
    /\ \E t \in {now + 1} \cup {x \in Deadlines : x > now} : now' = t
    /\ steps' = steps + 1
    /\ UNCHANGED <<on_hold, next_wake_up, is_paused, queue_status, next_cleanup,
                   pc, concurrent, attempts, ext, store, track, last,
                   chan_vars, msg_vars, hk_vars>>

\* the state Queue::new and the head of Queue::start leave, but for the clock
QueueInit ==
    /\ on_hold = [id \in QueueIds |-> NoHold]
    /\ next_wake_up = 0
    /\ is_paused = FALSE
    /\ queue_status = TRUE
    /\ next_cleanup = CLEANUP_INTERVAL
    /\ pc = "running"
    /\ concurrent = [l \in Limiters |-> 0]
    /\ attempts = [id \in QueueIds |-> <<>>]
    /\ ext = [l \in Limiters |-> 0]
    /\ store = [id \in QueueIds |-> NoEvent]
    /\ steps = 0
    /\ track = [id \in QueueIds |-> "free"]
    /\ last = [type |-> "None", queue_id |-> None, rescan |-> FALSE, cleanup |-> FALSE,
               t |-> 0, batch |-> <<>>, pre |-> on_hold, mid |-> on_hold,
               conc |-> concurrent, launched |-> {}, end |-> 0]

\* an empty channel
ChanInit == rx = <<>> /\ sent = <<>> /\ handled = <<>>

\* no message under evaluation
NoResult == [fn |-> "None", arg |-> None, value |-> None]
MsgIdle == message = <<>> /\ result = NoResult

\* no housekeeper task
NoHkEvent == [type |-> "None", provider_id |-> None, renew_at |-> 0]
HkIdle ==
    /\ index_busy = FALSE /\ index_pending = FALSE
    /\ heap = <<>> /\ hk_rx = <<>> /\ hk_pc = "stopped" /\ hk_deadline = 0
    /\ runs = 0 /\ renewing = {} /\ purge_schedules = <<>>
    /\ concurrency_limiter = <<>> /\ purges = {}
    /\ hk_last = [type |-> "None", event |-> NoHkEvent, executed |-> <<>>,
                  started |-> FALSE, waiting |-> 0, answered |-> 0]

Init == QueueInit /\ now = 0 /\ ChanInit /\ MsgIdle /\ HkIdle

Next == Loop \/ WorkerFinish \/ ExtAdmit \/ ExtRelease \/ StoreUpdate \/ Tick

Spec == Init /\ [][Next]_vars

(* ===================================================================== *)
(* The deadline functions of Message                                     *)
(* ===================================================================== *)
\* the longest Message.domains drawn
MaxDomains == 2

\* Status of a domain, and the values drawn for its three deadlines
Statuses == {"Scheduled", "TemporaryFailure", "PermanentFailure", "Completed"}
DeadlineValues == {1, 3}
\* the values drawn for the clock and for the argument of next_event_after
MsgNows == {0, 2}
Instants == {0, 1, 2, 3}

Domains ==
    [status : Statuses, retry : DeadlineValues, notify : DeadlineValues,
     expires : DeadlineValues]
Messages == UNION {[1..n -> Domains] : n \in 0..MaxDomains}

\* matches!(domain.status, Status::Scheduled | Status::TemporaryFailure(_))
Qualifies(domain) == domain.status \in {"Scheduled", "TemporaryFailure"}

\* mutant: every domain takes part, whatever its status
RECURSIVE NextEventFrom_AnyStatus(_, _, _, _)
NextEventFrom_AnyStatus(domains, i, next_event, has_events) ==
    IF i > Len(domains) THEN [ne |-> next_event, he |-> has_events]
    ELSE LET d == domains[i]
             a == IF ~has_events \/ d.retry < next_event
                  THEN [ne |-> d.retry, he |-> TRUE]
                  ELSE [ne |-> next_event, he |-> has_events]
             b == IF d.notify < a.ne THEN d.notify ELSE a.ne
             c == IF d.expires < b THEN d.expires ELSE b
         IN NextEventFrom_AnyStatus(domains, i + 1, c, a.he)

\* the loop of next_event from domain i on, with the locals next_event and
\* has_events
RECURSIVE NextEventFrom(_, _, _, _)
NextEventFrom(domains, i, next_event, has_events) ==
    IF i > Len(domains) THEN [ne |-> next_event, he |-> has_events]
    ELSE LET d == domains[i] IN
         IF Qualifies(d)
         THEN LET a == IF ~has_events \/ d.retry < next_event
                       THEN [ne |-> d.retry, he |-> TRUE]
                       ELSE [ne |-> next_event, he |-> has_events]
                  b == IF d.notify < a.ne THEN d.notify ELSE a.ne
                  c == IF d.expires < b THEN d.expires ELSE b
              IN NextEventFrom(domains, i + 1, c, a.he)
         ELSE NextEventFrom(domains, i + 1, next_event, has_events)

\* mutant: the first qualifying domain does not replace the initial value
RECURSIVE MinFrom_NoFirst(_, _, _)
MinFrom_NoFirst(xs, pos, cur) ==
    IF pos > Len(xs) THEN cur
    ELSE MinFrom_NoFirst(xs, pos + 1, IF xs[pos] < cur THEN xs[pos] ELSE cur)

\* the loop shared by next_delivery_event, next_dsn and expires over the
\* values xs of the qualifying domains, from position pos on (pos counts from
\* 1 here, from 0 in the code)
RECURSIVE MinFrom(_, _, _)
MinFrom(xs, pos, cur) ==
    IF pos > Len(xs) THEN cur
    ELSE MinFrom(xs, pos + 1, IF pos = 1 \/ xs[pos] < cur THEN xs[pos] ELSE cur)

\* .filter(|d| matches!(d.status, Scheduled | TemporaryFailure(_)))
Filtered(domains) == SelectSeq(domains, Qualifies)

\* mutant: next_dsn looks at every domain, whatever its status
next_dsn_Unfiltered(domains, t) ==
    MinFrom([k \in 1..Len(domains) |-> domains[k].notify], 1, t)

\* Message::next_delivery_event, Message::next_dsn, Message::expires at clock t
next_delivery_event(domains, t) ==
    LET f == Filtered(domains) IN MinFrom([k \in 1..Len(f) |-> f[k].retry], 1, t)

next_dsn(domains, t) ==
    LET f == Filtered(domains) IN MinFrom([k \in 1..Len(f) |-> f[k].notify], 1, t)

expires(domains, t) ==
    LET f == Filtered(domains) IN MinFrom([k \in 1..Len(f) |-> f[k].expires], 1, t)

\* mutant: a deadline equal to instant qualifies
Sooner_Inclusive(due, instant, next_event) ==
    due >= instant /\ (next_event = None \/ due < next_event)

\* due > instant && next_event.map_or(true, |ne| due.lt(ne))
Sooner(due, instant, next_event) ==
    due > instant /\ (next_event = None \/ due < next_event)

\* the loop of next_event_after from domain i on, with the local next_event
RECURSIVE NextEventAfterFrom(_, _, _, _)
NextEventAfterFrom(domains, i, instant, next_event) ==
    IF i > Len(domains) THEN next_event
    ELSE LET d == domains[i] IN
         IF Qualifies(d)
         THEN LET a == IF Sooner(d.retry, instant, next_event)
                       THEN d.retry ELSE next_event
                  b == IF Sooner(d.notify, instant, a) THEN d.notify ELSE a
                  c == IF Sooner(d.expires, instant, b) THEN d.expires ELSE b
              IN NextEventAfterFrom(domains, i + 1, instant, c)
         ELSE NextEventAfterFrom(domains, i + 1, instant, next_event)

\* Message::next_event at clock t
next_event(domains, t) ==
    LET r == NextEventFrom(domains, 1, t, FALSE) IN
    IF r.he THEN r.ne ELSE None

\* Message::next_event_after
next_event_after(domains, instant) == NextEventAfterFrom(domains, 1, instant, None)

\* a call of one of the five functions on the message, its value recorded
Called(fn, arg, value) == [fn |-> fn, arg |-> arg, value |-> value]

CallNextEvent ==
    /\ result' = Called("next_event", None, next_event(message, now))
    /\ UNCHANGED <<on_hold, next_wake_up, is_paused, queue_status, next_cleanup, pc,
                   concurrent, attempts, ext, store, now, steps, track, last,
                   chan_vars, message, hk_vars>>

CallNextEventAfter ==
    \E instant \in Instants :
        /\ result' = Called("next_event_after", instant,
                            next_event_after(message, instant))
        /\ UNCHANGED <<on_hold, next_wake_up, is_paused, queue_status, next_cleanup,
                       pc, concurrent, attempts, ext, store, now, steps, track,
                       last, chan_vars, message, hk_vars>>

CallNextDeliveryEvent ==
    /\ result' = Called("next_delivery_event", None, next_delivery_event(message, now))
    /\ UNCHANGED <<on_hold, next_wake_up, is_paused, queue_status, next_cleanup, pc,
                   concurrent, attempts, ext, store, now, steps, track, last,
                   chan_vars, message, hk_vars>>

CallNextDsn ==
    /\ result' = Called("next_dsn", None, next_dsn(message, now))
    /\ UNCHANGED <<on_hold, next_wake_up, is_paused, queue_status, next_cleanup, pc,
                   concurrent, attempts, ext, store, now, steps, track, last,
                   chan_vars, message, hk_vars>>

CallExpires ==
    /\ result' = Called("expires", None, expires(message, now))
    /\ UNCHANGED <<on_hold, next_wake_up, is_paused, queue_status, next_cleanup, pc,
                   concurrent, attempts, ext, store, now, steps, track, last,
                   chan_vars, message, hk_vars>>

\* any message, at any clock, with no call made yet
MsgInit ==
    /\ QueueInit /\ ChanInit
    /\ now \in MsgNows
    /\ message \in Messages
    /\ result = NoResult
    /\ HkIdle

MsgNext ==
    \/ CallNextEvent \/ CallNextEventAfter \/ CallNextDeliveryEvent
    \/ CallNextDsn \/ CallExpires

MsgSpec == MsgInit /\ [][MsgNext]_vars

(* ===================================================================== *)
(* The control channel                                                   *)
(* ===================================================================== *)
\* the capacity of the channel
IPC_CHANNEL_BUFFER == 2

\* mutant: the receiver takes the newest event waiting
recv_Newest(q) == [ev |-> q[Len(q)], rest |-> SubSeq(q, 1, Len(q) - 1)]

\* rx.recv() on a channel holding q: the oldest event waiting, and what stays
recv(q) == [ev |-> Head(q), rest |-> Tail(q)]

\* what a sender may put on the channel (of the OnHold events, those that
\* carry a lock); Closed stands for the drop of the last sender, after which
\* recv() returns None once the channel is drained
ChanInputs ==
    {e \in Inputs : e.type # "Timeout" /\ e.status.kind # "ConcurrencyLimited"}

\* a sender's send(ev).await returns: the channel had room and took the event
Send ==
    \E ev \in ChanInputs :
        /\ pc = "running"
        /\ steps < MaxSteps
        /\ \A k \in 1..Len(sent) : sent[k].type # "Closed"
        /\ ev.type = "Closed" \/ Len(rx) < IPC_CHANNEL_BUFFER
        /\ rx' = Append(rx, ev)
        /\ sent' = Append(sent, ev)
        /\ steps' = steps + 1
        /\ UNCHANGED <<on_hold, next_wake_up, is_paused, queue_status, next_cleanup,
                       pc, concurrent, attempts, ext, store, now, track, last,
                       handled, msg_vars, hk_vars>>

\* the wait returns the event recv() yields, and the iteration handles it
Recv ==
    /\ rx # <<>>
    /\ LET r == recv(rx) IN
       /\ Iteration(r.ev, 0)
       /\ rx' = r.rest
       /\ handled' = Append(handled, r.ev)
    /\ UNCHANGED <<sent, msg_vars, hk_vars>>

\* the wait times out: recv() is polled first, so only on an empty channel
RecvTimeout ==
    /\ rx = <<>>
    /\ Iteration(Timeout, 0)
    /\ UNCHANGED <<chan_vars, msg_vars, hk_vars>>

\* senders, the loop and the clock; the store stays empty
ChanNext == Send \/ Recv \/ RecvTimeout \/ Tick

\* the loop's task is scheduled: an event that waits is taken
ChannelSpec == Init /\ [][ChanNext]_vars /\ WF_vars(Recv)

(* ===================================================================== *)
(* The rescan of a batch large enough to be shuffled                      *)
(* ===================================================================== *)
\* if queue_events.len() > 5
SHUFFLE_ABOVE == 5

\* one id more than a batch may have without being shuffled
ShuffleIds == 1..(SHUFFLE_ABOVE + 1)

\* the items of the store, by increasing and by decreasing id: the orders the
\* store is taken to enumerate them in
RECURSIVE Ascending(_)
Ascending(S) ==
    IF S = {} THEN <<>>
    ELSE LET m == CHOOSE x \in S : \A y \in S : x <= y IN
         <<[queue_id |-> m, due |-> store[m]]>> \o Ascending(S \ {m})

Reverse(q) == [i \in 1..Len(q) |-> q[Len(q) + 1 - i]]

StoreOrders ==
    LET q == Ascending({id \in ShuffleIds : store[id] # NoEvent}) IN {q, Reverse(q)}

\* mutant: the shuffle loses the last item
Shuffled_DropsLast(q) ==
    IF Len(q) > SHUFFLE_ABOVE
    THEN {SubSeq(o, 1, Len(o) - 1) : o \in Orders({q[i] : i \in 1..Len(q)})}
    ELSE {q}

\* the orders queue_events may be in when the item pass starts: any
\* permutation when there are more than 5 items, the store's order otherwise
Shuffled(q) ==
    IF Len(q) > SHUFFLE_ABOVE
    THEN Orders({q[i] : i \in 1..Len(q)})
    ELSE {q}

\* registries the loop may hold when it wakes: empty; an attempt in flight, a
\* running lock and a limited item; a lock run out and a limited item whose
\* next_due has come
ShuffleHolds ==
    {[id \in ShuffleIds |-> NoHold],
     [id \in ShuffleIds |->
        CASE id = 1 -> InFlight
          [] id = 2 -> Locked(now + 2)
          [] id = 3 -> ConcurrencyLimited(SharedLimiters, None)
          [] OTHER -> NoHold],
     [id \in ShuffleIds |->
        CASE id = 1 -> Locked(now - 1)
          [] id = 2 -> ConcurrencyLimited(SharedLimiters, now)
          [] OTHER -> NoHold]}

\* stores of SHUFFLE_ABOVE or SHUFFLE_ABOVE + 1 items, all due, or all due
\* but the first
ShuffleStores ==
    {[id \in ShuffleIds |->
        IF id > n THEN NoEvent ELSE IF id = 1 THEN now + o ELSE now] :
            n \in {SHUFFLE_ABOVE, SHUFFLE_ABOVE + 1}, o \in {0, 2}}

\* the loop wakes on its timeout at second 1, no attempt running
ShuffleInit ==
    /\ now = 1
    /\ next_wake_up = now
    /\ is_paused = FALSE
    /\ queue_status = TRUE
    /\ next_cleanup = CLEANUP_INTERVAL
    /\ pc = "running"
    /\ on_hold \in ShuffleHolds
    /\ store \in ShuffleStores
    /\ ext \in {e \in [Limiters -> 0..MaxConcurrent] :
                   \A l \in Limiters \ SharedLimiters : e[l] = 0}
    /\ concurrent = ext
    /\ attempts = [id \in ShuffleIds |-> <<>>]
    /\ steps = 0
    /\ track = [id \in ShuffleIds |-> "free"]
    /\ last = [type |-> "None", queue_id |-> None, rescan |-> FALSE, cleanup |-> FALSE,
               t |-> 0, fetched |-> <<>>, batch |-> <<>>, pre |-> on_hold,
               mid |-> on_hold, conc |-> concurrent, launched |-> {}, end |-> 0]
    /\ ChanInit /\ MsgIdle /\ HkIdle

\* the iteration in which the wait times out: the rescan of the batch the
\* store enumerates (fetched), in the order the shuffle leaves it in (batch)
TimeoutRescan ==
    /\ pc = "running" /\ ~is_paused
    /\ WaitDuration(now) = 0
    /\ RescanDue(FALSE, next_wake_up, now)
    /\ \E fetched \in StoreOrders :
          \E queue_events \in Shuffled(fetched) :
             LET r == Rescan(on_hold, queue_events, now, now) IN
             /\ on_hold' = r.on_hold
             /\ concurrent' = r.concurrent
             /\ attempts' = r.attempts
             /\ next_cleanup' = r.next_cleanup
             /\ next_wake_up' = r.next_wake_up
             /\ track' = [id \in ShuffleIds |->
                             IF r.attempts[id] # attempts[id] THEN "flying"
                             ELSE track[id]]
             /\ last' = [type |-> "Timeout", queue_id |-> None, rescan |-> TRUE,
                         cleanup |-> r.cleanup, t |-> now, fetched |-> fetched,
                         batch |-> queue_events, pre |-> on_hold, mid |-> r.mid,
                         conc |-> concurrent,
                         launched |-> {id \in ShuffleIds :
                                          r.attempts[id] # attempts[id]},
                         end |-> now]
    /\ UNCHANGED <<is_paused, queue_status, pc, ext, store, now, steps,
                   chan_vars, msg_vars, hk_vars>>

ShuffleNext == TimeoutRescan

ShuffleSpec == ShuffleInit /\ [][ShuffleNext]_vars

(* ===================================================================== *)
(* The loop scheduled fairly, with time advancing                         *)
(* ===================================================================== *)
\* a rescan at this instant would take the item of id to admission and admit
\* it: the loop runs unpaused, the store enumerates id as due, its entry is
\* absent, an expired lock or limited on a limiter with room, and every
\* global limiter has room
Eligible(id) ==
    /\ pc = "running" /\ ~is_paused
    /\ store[id] # NoEvent /\ store[id] <= now
    /\ LET h == on_hold[id] IN
       \/ h = NoHold
       \/ h.kind = "Locked" /\ h.until <= now
       \/ /\ h.kind = "ConcurrencyLimited"
          /\ \E l \in h.limiters : concurrent[l] < max_concurrent(l)
    /\ \A i \in 1..Len(GlobalLimiters) :
          concurrent[GlobalLimiters[i]] < max_concurrent(GlobalLimiters[i])

\* time advances to the instant the wait of the loop runs out, while an item
\* is waiting for it (the clock moves within the budget of Tick otherwise)
Elapse ==
    /\ \E id \in QueueIds : Eligible(id)
    /\ now < next_wake_up
    /\ now' = next_wake_up
    /\ UNCHANGED <<on_hold, next_wake_up, is_paused, queue_status, next_cleanup,
                   pc, concurrent, attempts, ext, store, steps, track, last,
                   chan_vars, msg_vars, hk_vars>>

\* the wait of the loop runs out and the iteration runs
TimeoutIteration == LoopIteration(Timeout) /\ UNCHANGED <<chan_vars, msg_vars, hk_vars>>

\* the loop, the workers, the other tasks and the store, the clock moving by
\* Elapse
DispatchNext ==
    Loop \/ WorkerFinish \/ ExtAdmit \/ ExtRelease \/ StoreUpdate \/ Elapse

\* the wait of the loop has run out and the iteration of the timeout would
\* change the state (next_wake_up, when it is paused or rescans; the record
\* of the iteration otherwise): ENABLED <<TimeoutIteration>>_vars
TimeoutReady ==
    /\ pc = "running" /\ WaitDuration(now) = 0
    /\ \/ is_paused
       \/ RescanDue(FALSE, next_wake_up, now)
       \/ ~(last.type = "Timeout" /\ ~last.rescan /\ last.pre = on_hold)

\* the clock does not stop before next_wake_up, and the task of the loop is
\* scheduled when its wait has run out: weak fairness of Elapse and of
\* TimeoutIteration. The iteration of a timeout ends with a wait that has
\* not run out, so the latter is written as: TimeoutReady does not hold for
\* ever
DispatchSpec ==
    /\ Init /\ [][DispatchNext]_vars
    /\ WF_vars(Elapse)
    /\ []<>(~TimeoutReady)

(* ===================================================================== *)
(* The housekeeper                                                       *)
(* ===================================================================== *)
\* the latest instant the clock of the housekeeper reaches
HkMaxTime == 3

\* the most purge schedules a configuration has
MaxSchedules == 2

\* the ids of core.tls.acme_providers, in the order of the map's values()
ProviderSeq == <<1>>
Providers == {ProviderSeq[i] : i \in 1..Len(ProviderSeq)}

\* the keys of Inner.concurrency_limiter
LimiterKeys == {1, 2, 3}

\* the period of jmap.session_purge_frequency
SessionPeriod == 2

\* the period of the cron of the first purge schedule; the next one's is
\* one longer, and so on
StorePeriod == 3

\* the delays core.init_acme and core.renew report, the one substituted when
\* the renewal fails among them
RenewDelays == {1}

\* the wait with nothing scheduled
LONG_SLUMBER == 86400

\* core.storage.purge_schedules of the configurations the server may run
\* with: the cron period of each schedule
Configs == {[i \in 1..n |-> StorePeriod + i - 1] : n \in 0..MaxSchedules}

\* SimpleCron::time_to_next at instant t: the time to the next multiple of
\* the period, never zero
cron_time_to_next(period, t) == period - (t % period)

\* Action { due, event }
Action(due, class, arg) == [due |-> due, class |-> class, arg |-> arg]

\* Action::cmp: self.due.cmp(&other.due).reverse(), 1 standing for Greater
cmp(a, b) ==
    IF a.due < b.due THEN 1 ELSE IF a.due > b.due THEN -1 ELSE 0

\* BinaryHeap::peek: the positions of the greatest Actions, any of which the
\* heap may hand out
Peekable(h) == {k \in 1..Len(h) : \A j \in 1..Len(h) : cmp(h[k], h[j]) >= 0}

\* the heap is the multiset of its Actions, written in one fixed order (by
\* due, then Session, Store, Acme, then index or provider): where a stands
\* in that order
Rank(a) ==
    a.due * 100 + (CASE a.class = "Session" -> 0 [] a.class = "Store" -> 10
                     [] OTHER -> 20) + a.arg

\* heap.push(a)
push(h, a) ==
    LET k == Cardinality({j \in 1..Len(h) : Rank(h[j]) <= Rank(a)})
    IN SubSeq(h, 1, k) \o <<a>> \o SubSeq(h, k + 1, Len(h))

\* heap.pop() taking the Action at position k
pop_at(h, k) == SubSeq(h, 1, k - 1) \o SubSeq(h, k + 1, Len(h))

\* heap.peek().map(|e| e.due.saturating_duration_since(now))
\*     .unwrap_or(LONG_SLUMBER)
time_to_next(h, t) ==
    IF h = <<>> THEN LONG_SLUMBER
    ELSE LET due == h[CHOOSE k \in Peekable(h) : TRUE].due IN
         IF due > t THEN due - t ELSE 0

\* what the arm of an executed Action pushes: Session again, Store(idx)
\* again if the configuration loaded still has schedule idx, Acme nothing
Rearm(h, a, t, cfg) ==
    CASE a.class = "Session" ->
            push(h, Action(t + cron_time_to_next(SessionPeriod, t), "Session", None))
      [] a.class = "Store" /\ a.arg \in 1..Len(cfg) ->
            push(h, Action(t + cron_time_to_next(cfg[a.arg], t), "Store", a.arg))
      [] OTHER -> h

\* the while loop of the timeout arm at instant t under configuration cfg:
\* every heap it may leave, with the Actions executed in the order of their
\* execution
RECURSIVE Drain(_, _, _, _)
Drain(h, t, cfg, done) ==
    IF h = <<>> \/ time_to_next(h, t) > 0
    THEN {[heap |-> h, executed |-> done]}
    ELSE UNION {Drain(Rearm(pop_at(h, k), h[k], t, cfg), t, cfg, Append(done, h[k]))
                   : k \in Peekable(h)}

\* the Events
IndexStart == [type |-> "IndexStart", provider_id |-> None, renew_at |-> 0]
IndexDone == [type |-> "IndexDone", provider_id |-> None, renew_at |-> 0]
Exit == [type |-> "Exit", provider_id |-> None, renew_at |-> 0]
AcmeReschedule(provider_id, renew_at) ==
    [type |-> "AcmeReschedule", provider_id |-> provider_id, renew_at |-> renew_at]

\* mutant: IndexStart starts a run whether or not one is under way
OnIndexStart_AlwaysSpawns(busy, pending) ==
    [busy |-> TRUE, pending |-> pending, spawn |-> TRUE]

\* Event::IndexStart
OnIndexStart(busy, pending) ==
    IF ~busy
    THEN [busy |-> TRUE, pending |-> pending, spawn |-> TRUE]
    ELSE [busy |-> busy, pending |-> TRUE, spawn |-> FALSE]

\* mutant: IndexDone forgets the request that waited
OnIndexDone_DropsPending(busy, pending) ==
    [busy |-> FALSE, pending |-> FALSE, spawn |-> FALSE]

\* Event::IndexDone
OnIndexDone(busy, pending) ==
    IF pending
    THEN [busy |-> busy, pending |-> FALSE, spawn |-> TRUE]
    ELSE [busy |-> FALSE, pending |-> pending, spawn |-> FALSE]

\* ConcurrencyLimiter::is_active of a limiter whose counter is c
is_active(c) == c > 0

\* mutant: the retain keeps every limiter
Keeps_All(c) == TRUE

\* the closure of the retain: |_, limiter| limiter.is_active()
Keeps(c) == is_active(c)

\* the limiters the map holds
Present == {k \in LimiterKeys : concurrency_limiter[k] # None}

\* the message taken from the channel is handled; Ok(None), which ends the
\* task as Exit does, needs every sender dropped, and Inner keeps one for as
\* long as the server runs
HkRecv ==
    /\ hk_pc = "running" /\ hk_rx # <<>>
    /\ LET ev == Head(hk_rx)
           r == CASE ev.type = "IndexStart" -> OnIndexStart(index_busy, index_pending)
                  [] ev.type = "IndexDone" -> OnIndexDone(index_busy, index_pending)
                  [] OTHER -> [busy |-> index_busy, pending |-> index_pending,
                               spawn |-> FALSE]
       IN
       /\ hk_rx' = Tail(hk_rx)
       /\ index_busy' = r.busy
       /\ index_pending' = r.pending
       /\ runs' = IF r.spawn THEN runs + 1 ELSE runs
       /\ heap' = IF ev.type = "AcmeReschedule"
                  THEN push(heap, Action(ev.renew_at, "Acme", ev.provider_id))
                  ELSE heap
       /\ hk_pc' = IF ev.type = "Exit" THEN "stopped" ELSE hk_pc
       /\ hk_last' = [type |-> "Event", event |-> ev, executed |-> <<>>,
                      started |-> r.spawn,
                      waiting |-> IF r.spawn THEN 0
                                  ELSE IF ev.type = "IndexStart"
                                       THEN hk_last.waiting + 1
                                       ELSE hk_last.waiting,
                      answered |-> IF r.spawn THEN hk_last.waiting
                                   ELSE hk_last.answered]
    /\ hk_deadline' = now + time_to_next(heap', now)
    /\ UNCHANGED <<on_hold, next_wake_up, is_paused, queue_status, next_cleanup,
                   pc, concurrent, attempts, ext, store, now, steps, track, last,
                   chan_vars, msg_vars, renewing, purge_schedules,
                   concurrency_limiter, purges>>

\* the timed receive runs out with no message waiting: the Actions due are
\* executed under the configuration loaded
HkTimeout ==
    /\ hk_pc = "running" /\ hk_rx = <<>> /\ now >= hk_deadline
    /\ \E d \in Drain(heap, now, purge_schedules, <<>>) :
          LET ran == {d.executed[k] : k \in 1..Len(d.executed)} IN
          /\ heap' = d.heap
          /\ renewing' = [p \in Providers |->
                            renewing[p] + Cardinality({k \in 1..Len(d.executed) :
                                /\ d.executed[k].class = "Acme"
                                /\ d.executed[k].arg = p})]
          /\ purges' = IF \E a \in ran : a.class = "Session"
                       THEN purges \cup Present ELSE purges
          /\ hk_last' = [type |-> "Timeout", event |-> NoHkEvent,
                         executed |-> d.executed, started |-> FALSE,
                         waiting |-> hk_last.waiting,
                         answered |-> hk_last.answered]
    /\ hk_deadline' = now + time_to_next(heap', now)
    /\ UNCHANGED <<on_hold, next_wake_up, is_paused, queue_status, next_cleanup,
                   pc, concurrent, attempts, ext, store, now, steps, track, last,
                   chan_vars, msg_vars, index_busy, index_pending, hk_rx, hk_pc,
                   runs, purge_schedules, concurrency_limiter>>

\* another task's housekeeper_tx.send(ev).await returns: the channel had room
HkSend ==
    \E ev \in {IndexStart, Exit} :
        /\ hk_pc = "running"
        /\ steps < MaxSteps
        /\ Len(hk_rx) < IPC_CHANNEL_BUFFER
        /\ hk_rx' = Append(hk_rx, ev)
        /\ steps' = steps + 1
        /\ UNCHANGED <<on_hold, next_wake_up, is_paused, queue_status, next_cleanup,
                       pc, concurrent, attempts, ext, store, now, track, last,
                       chan_vars, msg_vars, index_busy, index_pending, heap, hk_pc,
                       hk_deadline, runs, renewing, purge_schedules,
                       concurrency_limiter, purges, hk_last>>

\* an indexing run ends and reports IndexDone (to nobody, once the
\* housekeeper has returned)
IndexRunEnd ==
    /\ runs > 0
    /\ hk_pc = "running" => Len(hk_rx) < IPC_CHANNEL_BUFFER
    /\ runs' = runs - 1
    /\ hk_rx' = IF hk_pc = "running" THEN Append(hk_rx, IndexDone) ELSE hk_rx
    /\ UNCHANGED <<on_hold, next_wake_up, is_paused, queue_status, next_cleanup,
                   pc, concurrent, attempts, ext, store, now, steps, track, last,
                   chan_vars, msg_vars, index_busy, index_pending, heap, hk_pc,
                   hk_deadline, renewing, purge_schedules, concurrency_limiter,
                   purges, hk_last>>

\* the task of an executed Acme action ends: it sends AcmeReschedule with
\* renew_at = Instant::now() + the delay
AcmeRenewed ==
    \E p \in Providers, delay \in RenewDelays :
        /\ renewing[p] > 0
        /\ hk_pc = "running" => Len(hk_rx) < IPC_CHANNEL_BUFFER
        /\ renewing' = [renewing EXCEPT ![p] = @ - 1]
        /\ hk_rx' = IF hk_pc = "running"
                    THEN Append(hk_rx, AcmeReschedule(p, now + delay)) ELSE hk_rx
        /\ UNCHANGED <<on_hold, next_wake_up, is_paused, queue_status, next_cleanup,
                       pc, concurrent, attempts, ext, store, now, steps, track, last,
                       chan_vars, msg_vars, index_busy, index_pending, heap, hk_pc,
                       hk_deadline, runs, purge_schedules, concurrency_limiter,
                       purges, hk_last>>

\* the configuration is replaced: core.core.load() yields another one
Reload ==
    /\ steps < MaxSteps
    /\ purge_schedules' \in Configs \ {purge_schedules}
    /\ steps' = steps + 1
    /\ UNCHANGED <<on_hold, next_wake_up, is_paused, queue_status, next_cleanup,
                   pc, concurrent, attempts, ext, store, now, track, last,
                   chan_vars, msg_vars, index_busy, index_pending, heap, hk_rx,
                   hk_pc, hk_deadline, runs, renewing, concurrency_limiter, purges,
                   hk_last>>

\* a call of Inner::purge under way reaches one of its keys: the retain
\* keeps or removes its limiter
PurgeVisit ==
    \E k \in purges :
        /\ purges' = purges \ {k}
        /\ concurrency_limiter' =
              IF concurrency_limiter[k] # None /\ ~Keeps(concurrency_limiter[k])
              THEN [concurrency_limiter EXCEPT ![k] = None]
              ELSE concurrency_limiter
        /\ UNCHANGED <<on_hold, next_wake_up, is_paused, queue_status, next_cleanup,
                       pc, concurrent, attempts, ext, store, now, steps, track, last,
                       chan_vars, msg_vars, index_busy, index_pending, heap, hk_rx,
                       hk_pc, hk_deadline, runs, renewing, purge_schedules, hk_last>>

\* a request of key k is admitted: its limiter, created if the map has none,
\* counts it
LimiterUse ==
    \E k \in LimiterKeys :
        /\ steps < MaxSteps
        /\ concurrency_limiter[k] < MaxConcurrent
        /\ concurrency_limiter' =
              [concurrency_limiter EXCEPT ![k] = IF @ = None THEN 1 ELSE @ + 1]
        /\ steps' = steps + 1
        /\ UNCHANGED <<on_hold, next_wake_up, is_paused, queue_status, next_cleanup,
                       pc, concurrent, attempts, ext, store, now, track, last,
                       chan_vars, msg_vars, index_busy, index_pending, heap, hk_rx,
                       hk_pc, hk_deadline, runs, renewing, purge_schedules, purges,
                       hk_last>>

\* a request of key k ends: its InFlight handle is dropped
LimiterDone ==
    \E k \in LimiterKeys :
        /\ concurrency_limiter[k] > 0
        /\ concurrency_limiter' = [concurrency_limiter EXCEPT ![k] = @ - 1]
        /\ UNCHANGED <<on_hold, next_wake_up, is_paused, queue_status, next_cleanup,
                       pc, concurrent, attempts, ext, store, now, steps, track, last,
                       chan_vars, msg_vars, index_busy, index_pending, heap, hk_rx,
                       hk_pc, hk_deadline, runs, renewing, purge_schedules, purges,
                       hk_last>>

\* the task an executed Session action spawns calls Inner::purge: the retain
\* is to visit the limiters the map holds
PurgeStart ==
    /\ ~(Present \subseteq purges)
    /\ purges' = purges \cup Present
    /\ UNCHANGED <<on_hold, next_wake_up, is_paused, queue_status, next_cleanup,
                   pc, concurrent, attempts, ext, store, now, steps, track, last,
                   chan_vars, msg_vars, index_busy, index_pending, heap, hk_rx,
                   hk_pc, hk_deadline, runs, renewing, purge_schedules,
                   concurrency_limiter, hk_last>>

\* the clock of the housekeeper advances
HkTick ==
    /\ now < HkMaxTime
    /\ now' = now + 1
    /\ UNCHANGED <<on_hold, next_wake_up, is_paused, queue_status, next_cleanup,
                   pc, concurrent, attempts, ext, store, steps, track, last,
                   chan_vars, msg_vars, hk_vars>>

\* the heap the head of spawn_housekeeper has built at instant t after n of
\* its pushes past the first: Session, the purge schedules of cfg, and the
\* providers core.init_acme succeeds for (inited[i] is the delay it reports
\* for provider i, 0 its failure)
RECURSIVE StartHeap(_, _, _, _)
StartHeap(cfg, inited, t, n) ==
    IF n = 0
    THEN <<Action(t + cron_time_to_next(SessionPeriod, t), "Session", None)>>
    ELSE LET h == StartHeap(cfg, inited, t, n - 1) IN
         IF n <= Len(cfg)
         THEN push(h, Action(t + cron_time_to_next(cfg[n], t), "Store", n))
         ELSE IF inited[n - Len(cfg)] # 0
              THEN push(h, Action(t + inited[n - Len(cfg)], "Acme",
                                  ProviderSeq[n - Len(cfg)]))
              ELSE h

\* the state in which spawn_housekeeper enters its loop: the first indexing
\* run spawned, the heap built, no limiter yet
HouseInit ==
    /\ QueueInit /\ now = 0 /\ ChanInit /\ MsgIdle
    /\ index_busy = TRUE /\ index_pending = FALSE
    /\ runs = 1
    /\ purge_schedules \in Configs
    /\ \E inited \in [1..Len(ProviderSeq) -> {0} \cup RenewDelays] :
          heap = StartHeap(purge_schedules, inited, now,
                           Len(purge_schedules) + Len(ProviderSeq))
    /\ hk_rx = <<>> /\ hk_pc = "running"
    /\ hk_deadline = now + time_to_next(heap, now)
    /\ renewing = [p \in Providers |-> 0]
    /\ concurrency_limiter = [k \in LimiterKeys |-> None]
    /\ purges = {}
    /\ hk_last = [type |-> "None", event |-> NoHkEvent, executed |-> <<>>,
                  started |-> FALSE, waiting |-> 0, answered |-> 0]

\* the housekeeper, the tasks it spawns, the senders, the configuration and
\* the clock; no request uses a limiter
HouseNext ==
    \/ HkRecv \/ HkTimeout \/ HkSend \/ IndexRunEnd \/ AcmeRenewed \/ Reload
    \/ HkTick

\* the limiter map once requests of every key have been admitted, some of
\* them still running; no purge under way
PurgeInit ==
    /\ QueueInit /\ now = 0 /\ ChanInit /\ MsgIdle
    /\ index_busy = FALSE /\ index_pending = FALSE
    /\ heap = <<>> /\ hk_rx = <<>> /\ hk_pc = "stopped" /\ hk_deadline = 0
    /\ runs = 0 /\ renewing = {} /\ purge_schedules = <<>>
    /\ concurrency_limiter \in [LimiterKeys -> 0..MaxConcurrent]
    /\ purges = {}
    /\ hk_last = [type |-> "None", event |-> NoHkEvent, executed |-> <<>>,
                  started |-> FALSE, waiting |-> 0, answered |-> 0]

\* the requests and the calls of Inner::purge
PurgeNext == PurgeStart \/ PurgeVisit \/ LimiterUse \/ LimiterDone

PurgeSpec == PurgeInit /\ [][PurgeNext]_vars

\* the task of the housekeeper is scheduled when a message waits, and an
\* indexing run ends
HouseSpec ==
    /\ HouseInit /\ [][HouseNext]_vars
    /\ WF_vars(HkRecv) /\ WF_vars(IndexRunEnd)

\* the housekeeper of a server without ACME providers whose configuration
\* is not replaced
IndexInit == HouseInit /\ \A k \in 1..Len(heap) : heap[k].class # "Acme"

IndexNext == HkRecv \/ HkTimeout \/ HkSend \/ IndexRunEnd \/ HkTick

IndexSpec ==
    /\ IndexInit /\ [][IndexNext]_vars
    /\ WF_vars(HkRecv) /\ WF_vars(IndexRunEnd)

(* ===================================================================== *)
(* Properties                                                            *)
(* ===================================================================== *)
\* the latest rescan enumerated id with a due time that had arrived
InBatchDue(id) ==
    \E i \in 1..Len(last.batch) :
        last.batch[i].queue_id = id /\ last.batch[i].due <= last.t

\* the pass state of the latest rescan just before it evaluated batch[k]
PassBefore(k) ==
    ProcessItems([on_hold |-> last.pre, concurrent |-> last.conc,
                  attempts |-> [id \in QueueIds |-> <<>>],
                  next_wake_up |-> QUEUE_REFRESH],
                 SubSeq(last.batch, 1, k - 1), last.t)

(* C1 (as stated): after a dispatch for an id, no further dispatch for that
   id happens before a WorkerDone event for it has been handled. *)
C1_SingleFlightUntilWorkerDone ==
    [][\A id \in QueueIds :
          Dispatched(id) =>
              (track[id] = "free"
               \/ (last'.type = "WorkerDone" /\ last'.queue_id = id))]_vars

(* C1 (amended): after a dispatch for an id, no further dispatch for that id
   happens before a WorkerDone, Refresh(Some(id)) or OnHold event for that
   id has been handled. *)
C1_SingleFlightUntilCleared ==
    [][\A id \in QueueIds :
          Dispatched(id) =>
              (track[id] # "flying"
               \/ (last'.queue_id = id
                   /\ last'.type \in {"WorkerDone", "Refresh", "OnHold"}))]_vars

\* C1 witness: a rescan met a due item that was in flight and passed it over
C1_Witness ==
    \E id \in QueueIds :
        /\ track[id] = "flying"
        /\ last.rescan /\ last.pre[id] = InFlight /\ InBatchDue(id)
        /\ id \notin last.launched
        /\ on_hold[id] = InFlight

(* C2 (as stated): an InFlight entry is removed or replaced only by the
   handling of a WorkerDone event for the same id. *)
C2_InFlightClearedOnlyByWorkerDone ==
    [][\A id \in QueueIds :
          (on_hold[id] = InFlight /\ on_hold'[id] # InFlight) =>
              (last'.type = "WorkerDone" /\ last'.queue_id = id)]_vars

(* C2 (amended): an InFlight entry is removed or replaced only by the
   handling of a WorkerDone, Refresh(Some(id)) or OnHold event for the same
   id; no Refresh(None), timeout, Paused event, event for another id, rescan
   or cleanup pass clears or overwrites it. *)
C2_InFlightClearedOnlyByOwnEvent ==
    [][\A id \in QueueIds :
          (on_hold[id] = InFlight /\ on_hold'[id] # InFlight) =>
              (last'.queue_id = id
               /\ last'.type \in {"WorkerDone", "Refresh", "OnHold"})]_vars

\* C2 witness: an InFlight entry outlived an iteration that took an event
\* for another id (or for none), with its rescan and cleanup pass
C2_Witness ==
    \E id \in QueueIds :
        /\ last.pre[id] = InFlight /\ on_hold[id] = InFlight
        /\ last.type \in {"Refresh", "WorkerDone", "OnHold", "Timeout"}
        /\ last.queue_id # id
        /\ last.rescan /\ last.cleanup

(* C3: while the queue is paused (the last Paused event carried true), no
   delivery attempt is dispatched, whatever is due and whatever is handled. *)
C3_NoDispatchWhilePaused ==
    [][(is_paused' \/ ~queue_status') => \A id \in QueueIds : ~Dispatched(id)]_vars

\* C3 witness: an iteration handled an event while paused and left a due
\* item that nothing holds
C3_Witness ==
    /\ is_paused /\ ~queue_status
    /\ last.type \in {"Refresh", "WorkerDone", "Timeout"}
    /\ \E id \in QueueIds :
          store[id] # NoEvent /\ store[id] <= now /\ on_hold[id] = NoHold

(* C4: the iteration that handles Paused(false) after a paused period
   enumerates the store and evaluates every due item: each due item without
   an entry is dispatched or, when refused admission, held. *)
C4_UnpauseRescans ==
    [][(is_paused /\ ~is_paused') =>
          \A id \in QueueIds :
              (store[id] # NoEvent /\ store[id] <= now /\ on_hold[id] = NoHold)
                  => (last'.rescan /\ on_hold'[id] # NoHold)]_vars

(* C5: in a rescan at time t an item whose entry is Locked{until} with
   t < until is not dispatched and keeps its entry through the item pass;
   when the item is due and t >= until the Locked entry is removed and the
   item goes to admission (it ends InFlight and dispatched, or
   ConcurrencyLimited on the one refusing limiter and not dispatched). *)
C5_LockExpiry ==
    last.rescan =>
        \A id \in QueueIds :
            LET h == last.pre[id] IN
            h.kind = "Locked" =>
                /\ last.t < h.until =>
                      (id \notin last.launched /\ last.mid[id] = h)
                /\ (last.t >= h.until /\ InBatchDue(id)) =>
                      \/ (last.mid[id] = InFlight /\ id \in last.launched)
                      \/ (/\ id \notin last.launched
                          /\ \E l \in Limiters :
                                last.mid[id] = ConcurrencyLimited({l}, None))

\* C5 witness: a rescan at the very second a lock ran out dispatched the item
C5_Witness ==
    \E id \in QueueIds :
        /\ last.rescan /\ last.pre[id].kind = "Locked"
        /\ last.pre[id].until = last.t /\ InBatchDue(id)
        /\ id \in last.launched /\ on_hold[id] = InFlight

(* C6: when a rescan evaluates a due item whose entry is ConcurrencyLimited
   and at least one of the entry's limiters has counter < max_concurrent at
   that moment, the item is not skipped: the entry is removed and admission
   is attempted (it ends InFlight and dispatched, or ConcurrencyLimited,
   without next_due, on the one limiter that refused, which is saturated). *)
C6_AdmissionMonotonicity ==
    last.rescan =>
        \A k \in 1..Len(last.batch) :
            LET qe == last.batch[k]
                id == qe.queue_id
                st == PassBefore(k)
                h == st.on_hold[id]
            IN (/\ qe.due <= last.t
                /\ h.kind = "ConcurrencyLimited"
                /\ \E l \in h.limiters : st.concurrent[l] < max_concurrent(l)) =>
                   \/ (last.mid[id] = InFlight /\ id \in last.launched)
                   \/ (/\ id \notin last.launched
                       /\ \E r \in Limiters :
                             /\ st.concurrent[r] >= max_concurrent(r)
                             /\ last.mid[id] = ConcurrencyLimited({r}, None))

\* C6 witness: a due item held on two limiters, one saturated and one with
\* spare capacity, was taken up by a rescan and refused by the saturated one
C6_Witness ==
    \E id \in QueueIds :
        /\ last.rescan /\ InBatchDue(id)
        /\ last.pre[id].kind = "ConcurrencyLimited"
        /\ \E l \in last.pre[id].limiters : last.conc[l] < max_concurrent(l)
        /\ \E l \in last.pre[id].limiters : last.conc[l] >= max_concurrent(l)
        /\ last.mid[id].kind = "ConcurrencyLimited"
        /\ last.mid[id] # last.pre[id]

(* C7: a cleanup pass never removes an InFlight entry: the ids holding an
   InFlight entry are the same before and after it, whether or not the
   store still enumerates them. *)
C7_CleanupKeepsInFlight ==
    last.cleanup =>
        \A id \in QueueIds : (last.mid[id] = InFlight) <=> (on_hold[id] = InFlight)

\* C7 witness: a cleanup pass ran over an InFlight entry whose id the store
\* no longer enumerated
C7_Witness ==
    \E id \in QueueIds :
        /\ last.cleanup /\ last.mid[id] = InFlight /\ on_hold[id] = InFlight
        /\ \A i \in 1..Len(last.batch) : last.batch[i].queue_id # id

\* the latest rescan enumerated exactly one item, due in the future, and the
\* registry was empty
OnlyFutureItem ==
    /\ last.rescan /\ Len(last.batch) = 1 /\ last.batch[1].due > last.t
    /\ IsEmpty(last.pre)

(* C8 (as stated): after a rescan that enumerated exactly one item, with
   deadline T in the future, and an empty registry, next_wake_up >= T. *)
C8_WakeNotBeforeDeadline ==
    OnlyFutureItem => next_wake_up >= last.batch[1].due

(* C8 (amended): after such a rescan at time t the item is not dispatched and
   next_wake_up is the end of the rescan plus min(T - t, refresh ceiling): it
   is never before min(T, t + ceiling), so never before T when T is within
   the ceiling of t (T = t + 300 gives t + 300 for an instantaneous rescan). *)
C8_WakeAtDeadlineOrCeiling ==
    OnlyFutureItem =>
        LET T == last.batch[1].due
            due_in == Min(T - last.t, QUEUE_REFRESH)
        IN /\ last.launched = {}
           /\ next_wake_up >= last.t + due_in
           /\ next_wake_up <= now + due_in
           /\ T - last.t <= QUEUE_REFRESH => next_wake_up >= T

\* C8 witness: the single item was due at t + 300 and a rescan at t > 0 set
\* next_wake_up to it
C8_Witness ==
    /\ OnlyFutureItem /\ last.t > 0
    /\ last.batch[1].due = last.t + QUEUE_REFRESH
    /\ next_wake_up = last.batch[1].due

\* the number of handles on limiter l owned by running delivery attempts
RECURSIVE HandlesOf(_, _)
HandlesOf(l, ids) ==
    IF ids = {} THEN 0
    ELSE LET id == CHOOSE x \in ids : TRUE IN
         Cardinality({k \in 1..Len(attempts[id]) :
                         \E j \in 1..Len(attempts[id][k]) : attempts[id][k][j] = l})
         + HandlesOf(l, ids \ {id})

(* C9: a limiter's counter never exceeds max_concurrent, and an admission by
   the manager succeeds iff every limiter it asks has counter <
   max_concurrent at that moment; otherwise it fails and the entry names the
   limiter that refused. *)
C9_CounterBounded ==
    /\ \A l \in Limiters : concurrent[l] >= 0 /\ concurrent[l] <= max_concurrent(l)
    /\ last.rescan =>
          \A k \in 1..Len(last.batch) :
              LET qe == last.batch[k]
                  id == qe.queue_id
                  st == PassBefore(k)
                  full == {i \in 1..Len(GlobalLimiters) :
                              st.concurrent[GlobalLimiters[i]]
                                  >= max_concurrent(GlobalLimiters[i])}
              IN (qe.due <= last.t /\ st.on_hold[id] = NoHold) =>
                     IF full = {}
                     THEN id \in last.launched /\ last.mid[id] = InFlight
                     ELSE /\ id \notin last.launched
                          /\ \E i \in full :
                                /\ \A j \in full : i <= j
                                /\ last.mid[id] =
                                       ConcurrencyLimited({GlobalLimiters[i]}, None)

\* C9 witness: in one rescan an item took the last slot and the next one was
\* refused, the counter standing at max_concurrent
C9_Witness ==
    \E id \in QueueIds :
        /\ last.rescan /\ last.launched # {} /\ id \notin last.launched
        /\ last.pre[id] = NoHold /\ InBatchDue(id)
        /\ on_hold[id].kind = "ConcurrencyLimited"
        /\ \E l \in on_hold[id].limiters : concurrent[l] = max_concurrent(l)

(* C10: every limiter's counter equals the number of handles held by
   delivery attempts that have not finished (plus those of the other tasks
   sharing it): each admission is released exactly once, and a refused
   admission leaves no slot consumed. *)
C10_CounterMatchesHandles ==
    \A l \in Limiters : concurrent[l] = HandlesOf(l, QueueIds) + ext[l]

\* C10 witness: an admission passed the first limiter, was refused by the
\* second, and the first limiter's slot is free again
C10_Witness ==
    \E id \in QueueIds :
        /\ last.rescan /\ last.pre[id] = NoHold /\ InBatchDue(id)
        /\ on_hold[id] = ConcurrencyLimited({GlobalLimiters[2]}, None)
        /\ last.conc[GlobalLimiters[1]] < max_concurrent(GlobalLimiters[1])
        /\ concurrent[GlobalLimiters[1]] = 0

\* the step is the loop iteration that takes ev from the wait (the first
\* four conjuncts follow from the last one and are there to be tested first)
Handles(ev) ==
    /\ last'.type = ev.type /\ last'.queue_id = ev.queue_id
    /\ store' = store /\ ext' = ext
    /\ steps' - steps = Sent(ev) + (now' - now)
    /\ \A id \in QueueIds : Len(attempts'[id]) >= Len(attempts[id])
    /\ LoopIteration(ev)

(* C12: an iteration that observes Stop, and one that observes the closed
   channel, end the loop alike: the loop is stopped in that iteration, with
   no rescan, no dispatch and no change to the registry, next_wake_up, the
   pause flag, the cleanup deadline or any limiter counter, and the attempts
   in flight are left as they are; a stopped loop handles nothing more. *)
C12_StopAndClosedAlike ==
    [][/\ \A ev \in {Stop, Closed} :
             Handles(ev) =>
                 /\ pc' = "stopped"
                 /\ ~last'.rescan /\ last'.launched = {}
                 /\ UNCHANGED <<on_hold, next_wake_up, is_paused, queue_status,
                                next_cleanup, concurrent, attempts>>
       /\ pc = "stopped" =>
             UNCHANGED <<pc, on_hold, next_wake_up, is_paused, queue_status, last>>]_vars

\* C12 witness: the closed channel ended the loop while a delivery attempt
\* was in flight, its entry and its limiter slots still in place
C12_Witness ==
    /\ pc = "stopped" /\ last.type = "Closed"
    /\ \E id \in QueueIds :
          /\ on_hold[id] = InFlight /\ attempts[id] # <<>>
          /\ \A l \in Limiters : concurrent[l] > 0

(* C13: the wait of an iteration is max(0, next_wake_up - now), never
   negative; once next_wake_up has elapsed it is zero; a timeout fires only
   when next_wake_up has elapsed, and the iteration it starts does not
   fault. *)
C13_WaitClamped ==
    /\ [](/\ WaitDuration(now) >= 0
          /\ WaitDuration(now) =
                 IF next_wake_up - now > 0 THEN next_wake_up - now ELSE 0
          /\ next_wake_up <= now => WaitDuration(now) = 0)
    /\ [][Handles(Timeout) => (next_wake_up <= now /\ pc' = "running")]_vars

\* C13 witness: after a timeout iteration the loop waits again with
\* next_wake_up already behind the clock
C13_Witness ==
    /\ pc = "running" /\ last.type = "Timeout" /\ last.rescan
    /\ next_wake_up < now /\ WaitDuration(now) = 0

(* C14: handling an OnHold event that carries Locked{until} with until
   before the current time does not fault: the entry is stored and, when no
   rescan follows in the iteration, next_wake_up is not after the current
   instant. *)
C14_PastLockClamped ==
    [][\A ev \in {e \in Inputs : /\ e.type = "OnHold"
                                 /\ e.status.kind = "Locked"
                                 /\ e.status.until < now} :
          Handles(ev) =>
              /\ pc' = "running"
              /\ last'.pre[ev.queue_id] = ev.status
              /\ ~last'.rescan => next_wake_up' <= now]_vars

(* C15: no limiter has more running attempts holding it than max_concurrent
   (with max_concurrent = 1, A and B are never in flight together); and the
   iteration that handles WorkerDone(A) while B is held as ConcurrencyLimited
   runs a rescan (holds remain), in which B, enumerated as due and evaluated
   with every limiter below max_concurrent (A's slot released), is admitted,
   dispatched and given an InFlight entry. *)
C15_HeldItemFollowsWorkerDone ==
    /\ \A l \in Limiters : HandlesOf(l, QueueIds) <= max_concurrent(l)
    /\ \A a, b \in QueueIds :
          (/\ a # b /\ ~is_paused
           /\ last.type = "WorkerDone" /\ last.queue_id = a
           /\ last.pre[b].kind = "ConcurrencyLimited") =>
              /\ last.rescan
              /\ \A k \in 1..Len(last.batch) :
                    (/\ last.batch[k].queue_id = b
                     /\ last.batch[k].due <= last.t
                     /\ \A l \in Limiters :
                           PassBefore(k).concurrent[l] < max_concurrent(l)) =>
                        /\ b \in last.launched
                        /\ last.mid[b] = InFlight /\ on_hold[b] = InFlight

\* C15 witness: A's attempt had ended and released the limiter on which B
\* was held; the iteration of WorkerDone(A) dispatched B
C15_Witness ==
    \E a, b \in QueueIds :
        /\ a # b /\ last.type = "WorkerDone" /\ last.queue_id = a
        /\ last.pre[b].kind = "ConcurrencyLimited"
        /\ \E l \in last.pre[b].limiters : max_concurrent(l) = last.conc[l] + 1
        /\ last.rescan /\ b \in last.launched /\ on_hold[b] = InFlight
        /\ attempts[a] = <<>> /\ Len(attempts[b]) = 1

(* C11 (as stated): control events are handled in the order the channel
   accepted them and none is dropped: the events handled so far, followed by
   those waiting, are the events accepted; and every event accepted is
   eventually taken and handled by the loop. *)
C11_EveryEventHandled ==
    /\ [](sent = handled \o rx)
    /\ \A k \in 1..MaxSteps : (Len(sent) >= k) ~> (Len(handled) >= k)

(* C11 (amended): control events are handled in the order the channel
   accepted them and the loop skips none: the events handled so far,
   followed by those waiting, are the events accepted; and every event
   accepted is eventually taken and handled unless the loop ends first (on a
   Stop or a closure ahead of it in the channel, or on a fault), in which
   case the events behind stay in the channel unhandled. *)
C11_EveryEventHandledWhileRunning ==
    /\ [](sent = handled \o rx)
    /\ \A k \in 1..MaxSteps :
          (Len(sent) >= k) ~> (Len(handled) >= k \/ pc # "running")

\* C11 witness: two different events waited in the channel together and the
\* loop has taken both, in the order they were sent, a third one waiting
C11_Witness ==
    /\ pc = "running" /\ Len(handled) = 2 /\ Len(rx) = 1 /\ Len(sent) = 3
    /\ handled[1] # handled[2] /\ handled[2] # rx[1]
    /\ last.type = handled[2].type /\ last.queue_id = handled[2].queue_id

\* the least element of a non-empty set of numbers
SetMin(S) == CHOOSE x \in S : \A y \in S : x <= y

\* the domains of the message with status Scheduled or TemporaryFailure
Active ==
    {k \in 1..Len(message) : message[k].status \in {"Scheduled", "TemporaryFailure"}}

\* the retry, notify and expires deadlines of those domains
ActiveDeadlines ==
    UNION {{message[k].retry, message[k].notify, message[k].expires} : k \in Active}

(* C16: next_event() is the least of the retry, notify and expires
   deadlines of the domains with status Scheduled or TemporaryFailure, and
   None iff there is no such domain; the other domains do not influence it:
   the message without them has the same value. *)
C16_NextEventIsMinimum ==
    result.fn = "next_event" =>
        /\ result.value = IF Active = {} THEN None ELSE SetMin(ActiveDeadlines)
        /\ (result.value = None) <=> (Active = {})
        /\ result.value = next_event([k \in 1..Cardinality(Active) |->
                                         message[SetMin({j \in Active :
                                             Cardinality({h \in Active : h <= j}) = k})]],
                                     now)

\* C16 witness: the value is a deadline of an active domain, later than the
\* clock, and a finished domain ahead of it has an earlier deadline
C16_Witness ==
    /\ result.fn = "next_event" /\ result.value # None
    /\ \E i, j \in 1..Len(message) :
          /\ i < j
          /\ message[i].status \in {"PermanentFailure", "Completed"}
          /\ message[i].retry < result.value
          /\ j \in Active
          /\ message[j].expires = result.value
          /\ now < result.value

(* C17: next_event_after(instant) is the least of the retry, notify and
   expires deadlines of the Scheduled/TemporaryFailure domains that are
   strictly greater than instant, and None iff there is none; a value
   returned is strictly greater than instant. *)
C17_NextEventAfterIsMinimumBeyond ==
    result.fn = "next_event_after" =>
        LET beyond == {x \in ActiveDeadlines : x > result.arg} IN
        /\ result.value = IF beyond = {} THEN None ELSE SetMin(beyond)
        /\ (result.value = None) <=> (beyond = {})
        /\ result.value # None => result.value > result.arg

\* C17 witness: an active domain has a deadline equal to instant and a later
\* one, and the later one is the value; a finished domain has a deadline
\* beyond instant too
C17_Witness ==
    /\ result.fn = "next_event_after" /\ result.value # None
    /\ \E k \in Active :
          /\ message[k].retry = result.arg
          /\ message[k].notify = result.value
    /\ \E k \in 1..Len(message) :
          k \notin Active /\ message[k].expires > result.arg

(* C18: next_delivery_event(), next_dsn() and expires() are the least
   retry, the least notify and the least expires of the domains with status
   Scheduled or TemporaryFailure, and the current time when there is no such
   domain. *)
C18_PerFieldMinimum ==
    LET least(field) ==
            IF Active = {} THEN now ELSE SetMin({message[k][field] : k \in Active})
    IN /\ result.fn = "next_delivery_event" => result.value = least("retry")
       /\ result.fn = "next_dsn" => result.value = least("notify")
       /\ result.fn = "expires" => result.value = least("expires")

\* C18 witness: next_dsn took the notify of the second active domain, later
\* than the current time and earlier than the notify of the first
C18_Witness ==
    /\ result.fn = "next_dsn" /\ result.value > now
    /\ \E i, j \in Active :
          /\ i < j /\ message[j].notify = result.value
          /\ message[i].notify > result.value

(* C19: handling Refresh(Some(id)) removes the entry of id, whatever its
   variant, and leaves every other entry as it was; handling Refresh(None)
   or a timeout changes no entry; in all three cases the iteration goes on
   and a rescan is due: it runs in that iteration unless the queue is
   paused. *)
C19_RefreshFrame ==
    [][\A ev \in {e \in Inputs : e.type \in {"Refresh", "Timeout"}} :
          Handles(ev) =>
              /\ last'.pre = IF ev.queue_id = None THEN on_hold
                             ELSE [on_hold EXCEPT ![ev.queue_id] = NoHold]
              /\ pc' = "running"
              /\ UNCHANGED <<is_paused, queue_status>>
              /\ ~is_paused => last'.rescan]_vars

\* C19 witness: Refresh(Some(id)) dropped the InFlight entry of id, kept the
\* entry of another id, and the rescan ran
C19_Witness ==
    \E id \in QueueIds, j \in QueueIds :
        /\ j # id /\ last.type = "Refresh" /\ last.queue_id = id
        /\ track[id] = "cleared" /\ last.pre[id] = NoHold
        /\ last.pre[j] # NoHold /\ last.rescan

(* C20: handling WorkerDone(id) removes the entry of id and leaves every
   other entry as it was; a rescan is marked due iff the registry is not
   empty after the removal, so, the queue not being paused, a rescan runs in
   that iteration iff entries remain or next_wake_up has elapsed; when id
   held the only entry and next_wake_up is ahead, the registry is empty
   after the iteration. *)
C20_WorkerDoneFrame ==
    [][\A ev \in {e \in Inputs : e.type = "WorkerDone"} :
          Handles(ev) =>
              /\ last'.pre = [on_hold EXCEPT ![ev.queue_id] = NoHold]
              /\ pc' = "running"
              /\ ~is_paused =>
                    (last'.rescan <=>
                        ((\E j \in QueueIds : last'.pre[j] # NoHold)
                         \/ next_wake_up <= now))
              /\ ((\A j \in QueueIds \ {ev.queue_id} : on_hold[j] = NoHold)
                  /\ next_wake_up > now) =>
                     \A j \in QueueIds : on_hold'[j] = NoHold]_vars

\* C20 witness: the only item was dispatched, its WorkerDone was handled, no
\* rescan followed and the registry is empty
C20_Witness ==
    \E id \in QueueIds :
        /\ last.type = "WorkerDone" /\ last.queue_id = id /\ ~last.rescan
        /\ attempts[id] # <<>> /\ track[id] = "free"
        /\ \A j \in QueueIds : on_hold[j] = NoHold

\* the step is a loop iteration
IterationStep == \E ev \in Inputs : Handles(ev)

(* C21: handling OnHold{id, status} makes the entry of id equal to status and
   changes no other entry; the iteration goes on; when it neither rescans nor
   is paused, next_wake_up becomes until if status is Locked{until} with
   until earlier than next_wake_up and is unchanged otherwise, so it is
   never moved later. *)
C21_OnHoldStoresStatus ==
    [][\A ev \in {e \in Inputs : e.type = "OnHold"} :
          Handles(ev) =>
              /\ pc' = "running"
              /\ last'.pre = [on_hold EXCEPT ![ev.queue_id] = ev.status]
              /\ (~last'.rescan /\ ~is_paused) =>
                    /\ next_wake_up' =
                          IF ev.status.kind = "Locked" /\ ev.status.until < next_wake_up
                          THEN ev.status.until ELSE next_wake_up
                    /\ next_wake_up' <= next_wake_up]_vars

(* C22: the process-visible queue_status flag is the negation of the p of
   the last Paused(p) event handled (true before any), and only an iteration
   that handles a Paused event changes it; at the end of every iteration
   executed while paused next_wake_up is the current instant plus 86400
   seconds. *)
C22_PauseFlagAndIdleHorizon ==
    /\ [](queue_status = ~is_paused)
    /\ [][/\ queue_status' # queue_status =>
                \E ev \in {e \in Inputs : e.type = "Paused"} : Handles(ev)
          /\ \A ev \in {e \in Inputs : e.type = "Paused"} :
                Handles(ev) => queue_status' = ~ev.paused
          /\ (IterationStep /\ pc' = "running" /\ is_paused') =>
                (next_wake_up' = now' + 86400 /\ ~last'.rescan)]_vars

\* C22 witness: paused, an iteration that handled another event has just set
\* next_wake_up a day ahead of a clock that had moved on
C22_Witness ==
    /\ pc = "running" /\ is_paused /\ ~queue_status
    /\ last.type \in {"Refresh", "WorkerDone", "OnHold", "Timeout"}
    /\ now > 0 /\ next_wake_up = now + 86400

(* C29: bounded sleep: in every state where the queue is not paused and
   the loop has not ended, next_wake_up is at most the ceiling of
   QUEUE_REFRESH seconds after the current instant. *)
C29_BoundedSleep ==
    (pc = "running" /\ ~is_paused) => next_wake_up <= now + QUEUE_REFRESH

\* registry entries of each kind, to put in the place of an item's entry
SampleHolds ==
    {NoHold, InFlight, Locked(last.t), Locked(last.t + 2),
     ConcurrencyLimited(SharedLimiters, None)}

(* C24: an enumerated item whose due time is later than the rescan time is
   never dispatched by that rescan; the item pass neither consults nor
   changes its registry entry (whatever the entry, the pass leaves it, the
   other entries, the counters and the attempts as they are); its remaining
   time due - now is folded into the running minimum, so the loop wakes no
   later than that after the pass. *)
C24_FutureItemOnlyFolded ==
    last.rescan =>
        \A k \in 1..Len(last.batch) :
            LET qe == last.batch[k]
                id == qe.queue_id
                st == PassBefore(k)
                nx == PassBefore(k + 1)
            IN qe.due > last.t =>
                  /\ id \notin last.launched
                  /\ last.mid[id] = last.pre[id]
                  /\ nx = [st EXCEPT !.next_wake_up = Min(@, qe.due - last.t)]
                  /\ \A h \in SampleHolds :
                        ProcessItem([st EXCEPT !.on_hold[id] = h], qe, last.t)
                            = [nx EXCEPT !.on_hold[id] = h]
                  /\ next_wake_up <= last.end + (qe.due - last.t)

\* C24 witness: a rescan enumerated an item due two seconds later whose entry
\* was an expired lock; the entry is still there and the loop wakes in two
\* seconds
C24_Witness ==
    \E k \in 1..Len(last.batch) :
        LET id == last.batch[k].queue_id IN
        /\ last.rescan /\ last.batch[k].due = last.t + 2
        /\ last.pre[id].kind = "Locked" /\ last.pre[id].until <= last.t
        /\ last.mid[id] = last.pre[id]
        /\ next_wake_up = last.end + 2

\* the entry h keeps a due item back for as long as it stands: InFlight, or
\* ConcurrencyLimited with every limiter saturated (counters c) and no
\* next_due that has come by t
KeepsBack(h, c, t) ==
    \/ h = InFlight
    \/ /\ h.kind = "ConcurrencyLimited"
       /\ \A l \in h.limiters : c[l] >= max_concurrent(l)
       /\ h.next_due = None \/ h.next_due > t

(* C25: a due item whose entry is ConcurrencyLimited is skipped, with the
   registry, the counters and the running minimum unchanged and nothing
   dispatched, when every limiter of the entry is saturated and its next_due
   is absent or in the future; a due item whose entry is InFlight is always
   skipped in the same way. *)
C25_HeldItemSkippedUnchanged ==
    last.rescan =>
        \A k \in 1..Len(last.batch) :
            LET qe == last.batch[k]
                id == qe.queue_id
                st == PassBefore(k)
                h == st.on_hold[id]
            IN (qe.due <= last.t /\ KeepsBack(h, st.concurrent, last.t)) =>
                  /\ PassBefore(k + 1) = st
                  /\ id \notin last.launched
                  /\ last.pre[id] = h /\ last.mid[id] = h

\* C25 witness: a rescan passed over a due item limited on a saturated
\* limiter with a next_due still to come, while it dispatched or folded
\* nothing for it
C25_Witness ==
    \E id \in QueueIds :
        /\ last.rescan /\ InBatchDue(id)
        /\ last.pre[id].kind = "ConcurrencyLimited"
        /\ last.pre[id].next_due # None /\ last.pre[id].next_due > last.t
        /\ \A l \in last.pre[id].limiters : last.conc[l] >= max_concurrent(l)
        /\ last.mid[id] = last.pre[id] /\ id \notin last.launched

\* the item pass of the latest rescan, complete
PassEnd == PassBefore(Len(last.batch) + 1)

\* the number of handles on limiter l in the handle list hs
HandleCount(hs, l) == Cardinality({j \in 1..Len(hs) : hs[j] = l})

(* C26: for each due item that reaches admission (no entry, or an entry that
   no longer holds it back): when admission succeeds the entry becomes
   InFlight and exactly one attempt is dispatched, carrying the limiter
   handles the admission consumed; when it fails the entry becomes
   ConcurrencyLimited with a limiter list of exactly the refusing limiter and
   no next_due, and no attempt is dispatched. *)
C26_AdmissionOutcome ==
    last.rescan =>
        /\ last.mid = PassEnd.on_hold
        /\ last.launched = {id \in QueueIds : PassEnd.attempts[id] # <<>>}
        /\ \A k \in 1..Len(last.batch) :
              LET qe == last.batch[k]
                  id == qe.queue_id
                  st == PassBefore(k)
                  nx == PassBefore(k + 1)
                  h == st.on_hold[id]
                  spare == \A l \in Limiters : st.concurrent[l] < max_concurrent(l)
              IN (/\ qe.due <= last.t
                  /\ ~KeepsBack(h, st.concurrent, last.t)
                  /\ ~(h.kind = "Locked" /\ h.until > last.t)) =>
                    IF spare
                    THEN /\ nx.on_hold = [st.on_hold EXCEPT ![id] = InFlight]
                         /\ last.mid[id] = InFlight /\ id \in last.launched
                         /\ Len(PassEnd.attempts[id]) = 1
                         /\ nx.attempts = [st.attempts EXCEPT ![id] = <<PassEnd.attempts[id][1]>>]
                         /\ \A l \in Limiters :
                               nx.concurrent[l] - st.concurrent[l]
                                   = HandleCount(PassEnd.attempts[id][1], l)
                         /\ \A l \in Limiters : HandleCount(PassEnd.attempts[id][1], l) = 1
                    ELSE /\ id \notin last.launched
                         /\ nx.attempts = st.attempts /\ nx.concurrent = st.concurrent
                         /\ \E l \in Limiters :
                               /\ st.concurrent[l] >= max_concurrent(l)
                               /\ nx.on_hold = [st.on_hold EXCEPT
                                                  ![id] = ConcurrencyLimited({l}, None)]
                               /\ last.mid[id] = ConcurrencyLimited({l}, None)

\* C26 witness: one rescan admitted a due item, dispatching one attempt that
\* holds a handle on each limiter, and refused the next, leaving it limited on
\* the one limiter that refused
C26_Witness ==
    \E a, b \in QueueIds :
        /\ last.rescan /\ InBatchDue(a) /\ InBatchDue(b)
        /\ a \in last.launched /\ on_hold[a] = InFlight
        /\ attempts[a] = <<GlobalLimiters>>
        /\ b \notin last.launched /\ attempts[b] = <<>>
        /\ \E l \in Limiters :
              /\ on_hold[b] = ConcurrencyLimited({l}, None)
              /\ concurrent[l] = max_concurrent(l)

\* the ids the store enumerated in the latest rescan
Enumerated == {last.batch[i].queue_id : i \in 1..Len(last.batch)}

(* C30: a cleanup pass keeps a Locked{until} entry iff until is later than
   the current time and keeps a ConcurrencyLimited entry iff its id is among
   the items the store enumerated in that rescan; every other Locked or
   ConcurrencyLimited entry is removed, and the pass adds or alters no
   entry. *)
C30_CleanupRetention ==
    last.cleanup =>
        \A id \in QueueIds :
            LET h == last.mid[id] IN
            /\ on_hold[id] \in {h, NoHold}
            /\ h.kind = "Locked" => (on_hold[id] = h <=> h.until > last.end)
            /\ h.kind = "ConcurrencyLimited" => (on_hold[id] = h <=> id \in Enumerated)

\* C30 witness: a cleanup pass removed a ConcurrencyLimited entry whose id the
\* store did not enumerate and kept a lock that had not run out
C30_Witness ==
    \E a, b \in QueueIds :
        /\ last.cleanup
        /\ last.mid[a].kind = "ConcurrencyLimited" /\ a \notin Enumerated
        /\ on_hold[a] = NoHold
        /\ last.mid[b].kind = "Locked" /\ last.mid[b].until > last.end
        /\ on_hold[b] = last.mid[b]

\* the delays the latest rescan had to take the minimum of: the ceiling, the
\* remaining time of each item due later, the remaining lock of each due item
\* skipped for a lock still running
WakeDelays ==
    {QUEUE_REFRESH}
    \cup {last.batch[i].due - last.t :
             i \in {j \in 1..Len(last.batch) : last.batch[j].due > last.t}}
    \cup {last.pre[last.batch[i].queue_id].until - last.t :
             i \in {j \in 1..Len(last.batch) :
                       /\ last.batch[j].due <= last.t
                       /\ last.pre[last.batch[j].queue_id].kind = "Locked"
                       /\ last.pre[last.batch[j].queue_id].until > last.t}}

(* C28 (as stated): at the end of every rescan next_wake_up equals the rescan
   time plus the minimum of the refresh ceiling, due - now over the
   enumerated items with due > now, and until - now over the due items
   skipped for a Locked entry with until > now. *)
C28_WakeAtRescanTimePlusMinimum ==
    last.rescan => next_wake_up = last.t + SetMin(WakeDelays)

(* C28 (amended): at the end of every rescan next_wake_up equals the instant
   read once the item pass is over, which is the rescan time or later, plus
   that minimum, the remaining times being measured from the rescan time;
   InFlight and ConcurrencyLimited items contribute nothing to it. *)
C28_WakeAtPassEndPlusMinimum ==
    last.rescan =>
        /\ last.end >= last.t
        /\ next_wake_up = last.end + SetMin(WakeDelays)
        /\ PassEnd.next_wake_up = SetMin(WakeDelays)

\* C28 witness: a rescan that took time skipped a due item for a lock with
\* two seconds to run, enumerated nothing sooner, and set next_wake_up two
\* seconds after its end, which is later than the lock's deadline
C28_Witness ==
    \E id \in QueueIds :
        /\ last.rescan /\ InBatchDue(id) /\ last.end > last.t
        /\ last.pre[id] = Locked(last.t + 2)
        /\ next_wake_up = last.end + 2
        /\ next_wake_up > last.pre[id].until

\* the step handles a second Refresh(Some(id)) straight after a first: the
\* latest iteration handled Refresh(Some(id)), nothing has moved since (clock,
\* limiter counters), and this iteration handles the same event over the same
\* enumeration, in no time
SecondRefresh(id) ==
    /\ last.type = "Refresh" /\ last.queue_id = id /\ last.rescan
    /\ now = last.end /\ concurrent = PassEnd.concurrent
    /\ Handles(Refresh(id))
    /\ last'.batch = last.batch /\ now' = now

(* C23 (as stated): handling two consecutive Refresh(Some(id)) events gives
   the same registry and the same set of dispatched attempts as handling one:
   the second changes no entry and dispatches nothing. *)
C23_SecondRefreshChangesNothing ==
    [][\A id \in QueueIds :
          SecondRefresh(id) => (on_hold' = on_hold /\ last'.launched = {})]_vars

(* C23 (amended): the second of two consecutive Refresh(Some(id)) events
   changes no entry and dispatches nothing, unless the rescan of the first
   dispatched id; then the second removes the InFlight entry of id and either
   dispatches id a second time or leaves it ConcurrencyLimited, the entries
   and attempts of the other ids being as after the first. *)
C23_SecondRefreshRepeatsDispatch ==
    [][\A id \in QueueIds :
          SecondRefresh(id) =>
              /\ \A x \in QueueIds \ {id} :
                    on_hold'[x] = on_hold[x] /\ x \notin last'.launched
              /\ last'.pre = Remove(on_hold, id)
              /\ IF id \in last.launched
                 THEN \/ id \in last'.launched /\ on_hold'[id] = InFlight
                      \/ /\ id \notin last'.launched
                         /\ on_hold'[id].kind = "ConcurrencyLimited"
                 ELSE id \notin last'.launched /\ on_hold'[id] = on_hold[id]]_vars

\* C23 witness: a Refresh(Some(id)) was handled while the attempt dispatched
\* for id by an earlier one was in flight: its rescan took id up again and
\* left it ConcurrencyLimited, the attempt still running
C23_Witness ==
    \E id \in QueueIds :
        /\ last.type = "Refresh" /\ last.queue_id = id /\ last.rescan
        /\ InBatchDue(id) /\ last.pre[id] = NoHold
        /\ track[id] = "cleared" /\ attempts[id] # <<>>
        /\ id \notin last.launched
        /\ on_hold[id].kind = "ConcurrencyLimited"

\* the number of places of the sequence q that hold the item of id
Places(q, id) == Cardinality({k \in 1..Len(q) : q[k].queue_id = id})

(* C27: in one rescan every enumerated item is evaluated exactly once
   whatever the processing order, which is a permutation of the enumeration
   when that has more than 5 items and the enumeration itself otherwise: no
   id is dispatched more than once within the rescan, and at the end of the
   item pass every enumerated item with due <= now has an entry, which is
   InFlight, ConcurrencyLimited, or Locked with until > now; the items
   dispatched are those that end InFlight without having started so. *)
C27_EachItemOnce ==
    last.rescan =>
        /\ Len(last.batch) = Len(last.fetched)
        /\ Len(last.fetched) <= SHUFFLE_ABOVE => last.batch = last.fetched
        /\ \A id \in ShuffleIds :
              /\ Places(last.batch, id) = Places(last.fetched, id)
              /\ Places(last.batch, id) = IF store[id] # NoEvent THEN 1 ELSE 0
              /\ Len(attempts[id]) <= 1
              /\ id \in last.launched <=> Len(attempts[id]) = 1
              /\ id \in last.launched =>
                    (last.mid[id] = InFlight /\ last.pre[id] # InFlight)
              /\ (store[id] # NoEvent /\ store[id] <= last.t) =>
                    \/ last.mid[id] = InFlight
                    \/ last.mid[id].kind = "ConcurrencyLimited"
                    \/ last.mid[id].kind = "Locked" /\ last.mid[id].until > last.t

\* C27 witness: six items were enumerated and processed in another order than
\* the store's; one was dispatched, one skipped for its lock, and every other
\* that was due is held
C27_Witness ==
    /\ last.rescan /\ Len(last.batch) = SHUFFLE_ABOVE + 1
    /\ last.batch # last.fetched /\ last.batch # Reverse(last.fetched)
    /\ last.launched # {}
    /\ \E id \in ShuffleIds : last.mid[id].kind = "Locked" /\ last.mid[id].until > last.t
    /\ \E id \in ShuffleIds : last.mid[id].kind = "ConcurrencyLimited"

\* the registry the handler of ev leaves, whether the queue is paused or not
RegistryAfter(ev) ==
    CASE ev.type = "Refresh" /\ ev.queue_id # None -> Remove(on_hold, ev.queue_id)
      [] ev.type = "WorkerDone" -> Remove(on_hold, ev.queue_id)
      [] ev.type = "OnHold" -> [on_hold EXCEPT ![ev.queue_id] = ev.status]
      [] OTHER -> on_hold

(* C33: an iteration that ends with the queue paused, the one that times out
   included, leaves in the registry what the handler of its event leaves when
   the queue is not paused (Refresh(Some(id)) and WorkerDone(id) remove the
   entry of id, OnHold stores its status), and it enumerates nothing,
   dispatches nothing and runs no cleanup pass: the attempts, the counters
   and the cleanup deadline are as before. *)
C33_PausedFrame ==
    [][\A ev \in Inputs :
          (Handles(ev) /\ pc' = "running" /\ is_paused') =>
              /\ on_hold' = RegistryAfter(ev)
              /\ ~last'.rescan /\ ~last'.cleanup
              /\ last'.batch = <<>> /\ last'.launched = {}
              /\ attempts' = attempts /\ concurrent' = concurrent
              /\ next_cleanup' = next_cleanup]_vars

\* C33 witness: the queue paused and an item due, an OnHold event for it was
\* handled: its status is in the registry and nothing was enumerated or
\* dispatched
C33_Witness ==
    \E id \in QueueIds :
        /\ pc = "running" /\ is_paused
        /\ last.type = "OnHold" /\ last.queue_id = id
        /\ on_hold[id] # NoHold
        /\ store[id] # NoEvent /\ store[id] <= now
        /\ ~last.rescan /\ attempts[id] = <<>>

(* C34: a cleanup pass runs only as part of a rescan, and only a cleanup pass
   moves the cleanup deadline; a rescan runs the pass iff it finds the
   deadline elapsed, the registry being empty or not, and re-arms the
   deadline to the instant of the pass plus CLEANUP_INTERVAL; so a pass is at
   least CLEANUP_INTERVAL after the pass before it, and after the start of the
   loop. *)
C34_CleanupSpacing ==
    /\ [](next_cleanup >= CLEANUP_INTERVAL
          /\ (last.cleanup =>
                 (last.rescan /\ next_cleanup = last.end + CLEANUP_INTERVAL)))
    /\ [][/\ next_cleanup' # next_cleanup => (IterationStep /\ last'.cleanup)
          /\ IterationStep =>
                /\ last'.cleanup => last'.rescan
                /\ last'.rescan => (last'.cleanup <=> next_cleanup <= last'.end)
                /\ last'.cleanup =>
                      /\ next_cleanup' = last'.end + CLEANUP_INTERVAL
                      /\ last'.end - (next_cleanup - CLEANUP_INTERVAL)
                             >= CLEANUP_INTERVAL
                /\ ~last'.cleanup =>
                      (next_cleanup' = next_cleanup /\ on_hold' = last'.mid)]_vars

\* C34 witness: a second cleanup pass ran, two intervals or more after the
\* start, over an empty registry, and the deadline is armed again
C34_Witness ==
    /\ last.rescan /\ last.cleanup
    /\ last.end >= 2 * CLEANUP_INTERVAL
    /\ \A id \in QueueIds : last.mid[id] = NoHold
    /\ next_cleanup = last.end + CLEANUP_INTERVAL

(* C35: for a message with at least one Scheduled/TemporaryFailure domain,
   next_event() is the least of next_delivery_event(), next_dsn() and
   expires(); for every instant t a value returned by next_event_after(t) is
   not smaller than next_event(), none being returned only when next_event()
   is not later than t, and next_event_after(t) is next_event() whenever
   next_event() > t. *)
C35_DeadlineFunctionsAgree ==
    Active # {} =>
        LET ne == next_event(message, now) IN
        /\ ne # None
        /\ ne = Min(next_delivery_event(message, now),
                    Min(next_dsn(message, now), expires(message, now)))
        /\ result.fn = "next_event" =>
              result.value = Min(next_delivery_event(message, now),
                                 Min(next_dsn(message, now), expires(message, now)))
        /\ result.fn = "next_event_after" =>
              /\ result.value # None => result.value >= ne
              /\ result.value = None => ne <= result.arg
              /\ ne > result.arg => result.value = ne

\* C35 witness: with a finished domain beside the active ones,
\* next_event_after(t) was called for a t not before next_event() and returned
\* a later deadline
C35_Witness ==
    /\ Active # {} /\ Active # 1..Len(message)
    /\ result.fn = "next_event_after" /\ result.value # None
    /\ next_event(message, now) <= result.arg
    /\ result.value > next_event(message, now)

(* C32: eventual dispatch: with time advancing and the loop scheduled
   fairly, an item that the store enumerates as due while the loop runs
   unpaused, its entry absent or releasable and every global limiter with
   room, is eventually dispatched, unless one of these conditions ceases to
   hold first (the store drops or defers it, an event holds it or pauses or
   stops the loop, the room is taken): no item stays in these conditions for
   ever; again and again it has just been dispatched or is out of them. *)
C32_EventualDispatch ==
    \A id \in QueueIds :
        []<>(\/ id \in last.launched /\ on_hold[id] = InFlight
             \/ ~Eligible(id))

\* C32 witness: an item that waited, the queue just unpaused and the wait a
\* day long, was dispatched by the rescan of the timeout at the end of it
C32_Witness ==
    \E id \in QueueIds :
        /\ last.type = "Timeout" /\ last.rescan /\ last.t >= PAUSE_IDLE
        /\ id \in last.launched /\ on_hold[id] = InFlight
        /\ last.pre[id] = NoHold

(* --------------------------- the housekeeper -------------------------- *)
\* the iteration of the housekeeper that takes a message of type ty
Takes(ty) == HkRecv /\ Head(hk_rx).type = ty

\* how many Actions of the class, and of the index or provider, h holds
Pending(h, class, arg) ==
    Cardinality({k \in 1..Len(h) : h[k].class = class /\ h[k].arg = arg})

\* how many AcmeReschedule events of provider p wait in the channel
Rescheduling(p) ==
    Cardinality({k \in 1..Len(hk_rx) :
                    hk_rx[k].type = "AcmeReschedule" /\ hk_rx[k].provider_id = p})

(* C31: the retain of Inner::purge forgets only idle limiters: a limiter
   leaves the map only in a step in which its in-flight counter is zero, so
   never one whose counter is greater than zero; and the retain, reaching a
   limiter whose counter is zero, removes it, and leaves in the map the one
   whose counter is not. *)
C31_PurgeForgetsIdleOnly ==
    [][\A k \in LimiterKeys :
          /\ (k \in Present /\ concurrency_limiter'[k] = None)
                => concurrency_limiter[k] = 0
          /\ (k \in Present /\ k \in purges /\ purges' = purges \ {k})
                => (concurrency_limiter'[k] = None <=> concurrency_limiter[k] = 0)]_vars

\* with no request admitted since the start, a purge has run to its end: it
\* has removed a limiter (one that was idle) and kept one in use
C31_Witness ==
    \E k, j \in LimiterKeys :
        /\ concurrency_limiter[k] = None /\ concurrency_limiter[j] > 0
        /\ purges = {} /\ steps = 0

(* C36: indexing is single-flight: at most one indexing run is active at
   any time, index_pending implies index_busy, and a run is started only by
   the iteration that takes IndexStart with index_busy false or IndexDone
   with index_pending true (the first one is started before the loop). *)
C36_IndexSingleFlight ==
    /\ [](runs <= 1 /\ (index_pending => index_busy))
    /\ [][runs' > runs =>
             /\ runs' = runs + 1
             /\ \/ Takes("IndexStart") /\ ~index_busy
                \/ Takes("IndexDone") /\ index_pending]_vars

\* a run was started by IndexDone for a request that waited
C36_Witness ==
    /\ hk_last.type = "Event" /\ hk_last.event.type = "IndexDone"
    /\ hk_last.started /\ runs = 1 /\ index_busy /\ ~index_pending

(* C37 as stated: for every IndexStart handled, an indexing run starts at
   or after that moment. *)
C37_RequestNeverLost ==
    (hk_last.type = "Event" /\ hk_last.event.type = "IndexStart")
        ~> hk_last.started

(* C37: for every IndexStart handled, an indexing run starts at or after
   that moment unless the housekeeper returns first: IndexStart taken while
   index_busy is false starts a run at once; taken while index_busy, it
   starts none and sets index_pending, however many have been taken;
   IndexDone taken with index_pending starts exactly one run and clears
   index_pending; IndexDone taken without it starts none and leaves
   index_busy false. *)
C37_RequestsCoalesced ==
    /\ (hk_last.type = "Event" /\ hk_last.event.type = "IndexStart")
          ~> (hk_last.started \/ hk_pc = "stopped")
    /\ [][/\ (Takes("IndexStart") /\ ~index_busy)
                => runs' = runs + 1 /\ ~index_pending' /\ index_busy'
          /\ (Takes("IndexStart") /\ index_busy)
                => runs' = runs /\ index_pending' /\ index_busy'
          /\ (Takes("IndexDone") /\ index_pending)
                => runs' = runs + 1 /\ ~index_pending' /\ index_busy'
          /\ (Takes("IndexDone") /\ ~index_pending)
                => runs' = runs /\ ~index_pending' /\ ~index_busy']_vars

\* one run started at IndexDone answers two IndexStart taken during the run
\* before it
C37_Witness ==
    /\ hk_last.type = "Event" /\ hk_last.event.type = "IndexDone"
    /\ hk_last.started /\ hk_last.answered = 2
    /\ runs = 1 /\ ~index_pending

\* what a step does to the Actions of the heap: an Action leaves the heap
\* only in the iteration whose timed receive ran out; that iteration
\* executes Actions of the heap whose due instant is not later than the
\* current time, the earlier due first, and leaves none that is due; it
\* pushes an executed Store action again exactly if the configuration loaded
\* has its schedule, and an executed Acme action not at all, its renewal
\* task then running; no other step pushes a Store action, and an Acme
\* action is pushed only by the iteration that takes AcmeReschedule for its
\* provider
HeapSteps ==
    /\ (\E k \in 1..Len(heap) :
           \/ Pending(heap', heap[k].class, heap[k].arg)
                 < Pending(heap, heap[k].class, heap[k].arg)
           \/ /\ heap[k].class # "Acme"
              /\ heap[k] \notin {heap'[j] : j \in 1..Len(heap')})
          => HkTimeout
    /\ HkTimeout =>
          LET ex == hk_last'.executed IN
          /\ \A k \in 1..Len(ex) : ex[k].due <= now
          /\ \A k \in 1..Len(ex) : \E j \in 1..Len(heap) : heap[j] = ex[k]
          /\ \A k, j \in 1..Len(ex) : k < j => ex[k].due <= ex[j].due
          /\ \A k \in 1..Len(heap') : heap'[k].due > now
          /\ \A k \in 1..Len(ex) :
                /\ ex[k].class = "Store" =>
                      (Pending(heap', "Store", ex[k].arg) = 1
                          <=> ex[k].arg \in 1..Len(purge_schedules))
                /\ ex[k].class = "Acme" =>
                      /\ Pending(heap', "Acme", ex[k].arg) = 0
                      /\ renewing'[ex[k].arg] = 1
    /\ \A idx \in 1..MaxSchedules :
          Pending(heap', "Store", idx) > Pending(heap, "Store", idx) => HkTimeout
    /\ \A p \in Providers :
          Pending(heap', "Acme", p) > Pending(heap, "Acme", p)
              => Takes("AcmeReschedule") /\ Head(hk_rx).provider_id = p

\* the heap holds exactly one Session action, and for each provider at most
\* one Acme action, none while its renewal task runs or its AcmeReschedule
\* waits in the channel
OneSessionOneAcme ==
    /\ Pending(heap, "Session", None) = 1
    /\ \A p \in Providers :
          Pending(heap, "Acme", p) + renewing[p] + Rescheduling(p) <= 1

\* what holds of the heap whatever the configurations loaded: the steps are
\* as HeapSteps says, and the heap holds at most one action per schedule
\* index
HeapDiscipline ==
    /\ [](hk_pc = "running" =>
            /\ OneSessionOneAcme
            /\ \A idx \in 1..MaxSchedules : Pending(heap, "Store", idx) <= 1)
    /\ [][HeapSteps]_vars

(* C38: a scheduled action is executed only on a timeout and only when its
   due instant is not later than the current time, earliest due first; each
   executed Session action and each executed Store action whose schedule
   still exists is pushed again in the same step, so that the heap always
   holds exactly one pending Session action and exactly one pending action
   per store purge schedule; an executed Acme action is absent from the heap
   until an AcmeReschedule event for its provider is handled. *)
C38_ScheduledActions ==
    /\ [](hk_pc = "running" =>
            /\ OneSessionOneAcme
            /\ \A idx \in 1..Len(purge_schedules) : Pending(heap, "Store", idx) = 1)
    /\ [][HeapSteps]_vars

====
